---- MODULE Spec2Model ----
(***************************************************************************)
(* Silent Guardian: the local analysis-and-safety pipeline.                *)
(*                                                                         *)
(*   analyzeText        keyword tagger            (lib/textAnalysis)       *)
(*   evaluateStress     rule-based stress scorer  (lib/stressEvaluation)   *)
(*   evaluateSafety     safety firewall           (lib/safety)             *)
(*   generateSuggestions local suggestion pool    (lib/suggestionEngine)   *)
(*   Home               the page component whose handlers run the pipeline *)
(*                                                                         *)
(* Numbers are fixed point.  Voice metrics and the normalized inputs of    *)
(* the scorer are in thousandths; the scorer's score is in                 *)
(* ten-thousandths (0.6 * p + 0.4 * e  is  6 * p + 4 * e); the tagger's    *)
(* score is in hundredths, as produced by toFixed(2).                      *)
(***************************************************************************)
EXTENDS Integers, Sequences, FiniteSets, TLC

(***************************************************************************)
(* Bounds of the model.                                                    *)
(***************************************************************************)
\* number of fragments a journal text is made of
MaxFrags == 2
\* the scorer's inputs are the points k/StressGrid of [0,1]
StressGrid == 10
\* number of pipeline invocations started in one behaviour
MaxInvocations == 2
\* number of random sort orders the suggestion pools are shuffled into
MaxShuffles == 2
\* number of analysis windows of a recording
MaxWindows == 3
\* number of windows of an energy envelope given to estimateSpeakingRate
MaxEnvelope == 9

(***************************************************************************)
(* Strings: String.prototype.toLowerCase and String.prototype.includes.    *)
(***************************************************************************)
UpperToLower ==
  [c \in {"A","B","C","D","E","F","G","H","I","J","K","L","M",
          "N","O","P","Q","R","S","T","U","V","W","X","Y","Z"} |->
     CASE c = "A" -> "a" [] c = "B" -> "b" [] c = "C" -> "c" [] c = "D" -> "d"
       [] c = "E" -> "e" [] c = "F" -> "f" [] c = "G" -> "g" [] c = "H" -> "h"
       [] c = "I" -> "i" [] c = "J" -> "j" [] c = "K" -> "k" [] c = "L" -> "l"
       [] c = "M" -> "m" [] c = "N" -> "n" [] c = "O" -> "o" [] c = "P" -> "p"
       [] c = "Q" -> "q" [] c = "R" -> "r" [] c = "S" -> "s" [] c = "T" -> "t"
       [] c = "U" -> "u" [] c = "V" -> "v" [] c = "W" -> "w" [] c = "X" -> "x"
       [] c = "Y" -> "y" [] c = "Z" -> "z"]

RECURSIVE toLowerCase(_)
toLowerCase(s) ==
  IF Len(s) = 0 THEN ""
  ELSE LET c == SubSeq(s, 1, 1)
       IN  (IF c \in DOMAIN UpperToLower THEN UpperToLower[c] ELSE c)
             \o toLowerCase(SubSeq(s, 2, Len(s)))

\* s.includes(k): k occurs in s as a contiguous substring
includes(s, k) ==
  \E i \in 1..(Len(s) - Len(k) + 1) : SubSeq(s, i, i + Len(k) - 1) = k

\* String.prototype.trim: the text without the white space at its ends
RECURSIVE trim(_)
trim(s) ==
  IF Len(s) = 0 THEN ""
  ELSE IF SubSeq(s, 1, 1) \in {" ", "\n", "\t"} THEN trim(SubSeq(s, 2, Len(s)))
  ELSE IF SubSeq(s, Len(s), Len(s)) \in {" ", "\n", "\t"}
  THEN trim(SubSeq(s, 1, Len(s) - 1))
  ELSE s

\* Array.prototype.includes
arrayIncludes(arr, x) == \E i \in 1..Len(arr) : arr[i] = x

(***************************************************************************)
(* Text Tagger (textAnalysis).                                             *)
(***************************************************************************)
DICTIONARIES ==
  <<
    [tag |-> "stress", keywords |-> <<
        "overwhelmed", "too much", "can't handle", "pressure", "busy", "deadline",
        "stressed", "exhausted", "burden", "snap", "tension", "conflict", "burnout",
        "rushing", "behind", "chaotic" >>],
    [tag |-> "anxiety", keywords |-> <<
        "nervous", "scared", "worry", "worried", "panic", "dread", "fear", "shaking",
        "uneasy", "restless", "what if", "anxious", "paranoia", "on edge", "butterflies",
        "terrified" >>],
    [tag |-> "depression", keywords |-> <<
        "sad", "hopeless", "empty", "worthless", "guilty", "dark", "pain", "lonely",
        "tired of", "give up", "failed", "heavy", "numb", "grief", "crying", "depressed",
        "suicide", "kill myself" >>],
    [tag |-> "insomnia", keywords |-> <<
        "awake", "can't sleep", "no sleep", "tired", "insomnia", "nightmare",
        "tossing and turning", "up all night", "exhausted", "sleepless", "waking up" >>],
    [tag |-> "concern", keywords |-> <<
        "concerned", "issue", "problem", "trouble", "doubt", "unsafe", "risk", "bothered",
        "questioning", "unsure", "skeptical", "warning", "careful", "danger" >>],
    [tag |-> "positivity", keywords |-> <<
        "happy", "good", "great", "hope", "better", "love", "excited", "calm", "peace",
        "accomplished", "proud", "grateful", "thanks", "joy", "wonderful", "safe",
        "secure" >>]
  >>

\* a scan that would match a keyword only against the whole text
matchedWholeText(lowerText, keywords) ==
  SelectSeq(keywords, LAMBDA keyword : lowerText = keyword)

\* keywords.forEach: the keywords of one dictionary that the text contains,
\* in dictionary order
matchedKeywords(lowerText, keywords) ==
  SelectSeq(keywords, LAMBDA keyword : includes(lowerText, keyword))

\* "if (!list.includes(word)) list.push(word)" applied to the words in order
RECURSIVE pushDistinct(_)
pushDistinct(words) ==
  IF Len(words) = 0 THEN <<>>
  ELSE LET rest == pushDistinct(SubSeq(words, 1, Len(words) - 1))
           word == words[Len(words)]
       IN  IF arrayIncludes(rest, word) THEN rest ELSE Append(rest, word)

RECURSIVE flatten(_)
flatten(lists) ==
  IF Len(lists) = 0 THEN <<>> ELSE Head(lists) \o flatten(Tail(lists))

RECURSIVE sumSeq(_)
sumSeq(nums) == IF Len(nums) = 0 THEN 0 ELSE Head(nums) + sumSeq(Tail(nums))

Min(a, b) == IF a <= b THEN a ELSE b
Max(a, b) == IF a >= b THEN a ELSE b

\* tags whose matches are aggregated into stressSignals
STRESS_SIGNAL_TAGS == {"stress", "anxiety", "concern", "depression", "insomnia"}

\* sentimentScore * 0.2, in thousandths
SCORE_FACTOR == 200

\* Number(x.toFixed(2)): thousandths rounded to hundredths, half away from zero
toFixed2(x) == IF x >= 0 THEN (x + 5) \div 10 ELSE -((5 - x) \div 10)

\* a scoring that would count every matched keyword against the writer
keywordScoreAlwaysNegative(tag, count) == -count

\* "if (currentTag === 'positivity') sentimentScore += 1; else sentimentScore -= 1"
\* for the count matched keywords of one dictionary
keywordScore(tag, count) == IF tag = "positivity" THEN count ELSE -count

\* the tag handed to foundTags.add for every matched keyword, in scan order
addedTags(hits) ==
  flatten([d \in 1..Len(DICTIONARIES) |->
             [k \in 1..Len(hits[d]) |-> DICTIONARIES[d].tag]])

\* a tag set that would also hold the default next to the tags found
tagsWithDefault(foundTags) == Append(foundTags, "neutral")

\* "if (foundTags.size === 0) foundTags.add('neutral')", then Array.from(foundTags)
tagsOrDefault(foundTags) == IF Len(foundTags) = 0 THEN <<"neutral">> ELSE foundTags

analyzeText(text) ==
  LET lowerText == toLowerCase(text)
      dicts == 1..Len(DICTIONARIES)
      hits == [d \in dicts |-> matchedKeywords(lowerText, DICTIONARIES[d].keywords)]
      foundTags == pushDistinct(addedTags(hits))
      dictOf(tag) == CHOOSE d \in dicts : DICTIONARIES[d].tag = tag
      triggers == [tag \in {foundTags[i] : i \in 1..Len(foundTags)} |->
                     pushDistinct(hits[dictOf(tag)])]
      stressSignals ==
        pushDistinct(flatten([d \in dicts |->
          IF DICTIONARIES[d].tag \in STRESS_SIGNAL_TAGS THEN hits[d] ELSE <<>>]))
      sentimentScore ==
        sumSeq([d \in dicts |-> keywordScore(DICTIONARIES[d].tag, Len(hits[d]))])
      normalizedScore == Max(-1000, Min(1000, sentimentScore * SCORE_FACTOR))
  IN  [tags |-> tagsOrDefault(foundTags),
       score |-> toFixed2(normalizedScore),
       triggers |-> triggers,
       stressSignals |-> stressSignals]

(***************************************************************************)
(* Stress Scorer (stressEvaluation).  The repository holds two copies of   *)
(* evaluateStress: lib/stressEvaluation.ts, which is the module the page   *)
(* and the firewall import, and a later copy that adds the 'concern' case  *)
(* and a minimum floor for negative tags.                                  *)
(***************************************************************************)
HIGH_THRESHOLD == 7000
MODERATE_THRESHOLD == 4000
STRESS_BUMP == 3000
DEPRESSION_BUMP == 4000
POSITIVITY_MITIGATION == 2000
STRESS_FLOOR == 4500
DEPRESSION_FLOOR == 5000

HIGH_SUGGESTIONS ==
  << "Pause and take three deep, slow breaths.",
     "Step away for a quiet moment if possible." >>
MODERATE_SUGGESTIONS ==
  << "Try rolling your shoulders to release tension.",
     "Focus on your breathing for a few seconds." >>
LOW_SUGGESTIONS ==
  << "A good moment to reflect or journal.",
     "Continue with your current steady pace." >>

\* step 3 of evaluateStress: the category of a final score
categorize(finalScore) ==
  IF finalScore >= HIGH_THRESHOLD
  THEN [stressLevel |-> "HIGH",
        message |-> "Your signals indicate a moment of high intensity.",
        suggestions |-> HIGH_SUGGESTIONS]
  ELSE IF finalScore >= MODERATE_THRESHOLD
  THEN [stressLevel |-> "MODERATE",
        message |-> "Your signals suggest some tension or unease.",
        suggestions |-> MODERATE_SUGGESTIONS]
  ELSE [stressLevel |-> "LOW",
        message |-> "Your signals appear calm and balanced.",
        suggestions |-> LOW_SUGGESTIONS]

\* "if (sentimentTag)": present and not the empty string
hasSentimentTag(input) ==
  "sentimentTag" \in DOMAIN input /\ input.sentimentTag # ""

\* a switch whose bumps would be twice as large
sentimentAdjustmentDoubled(input) ==
  IF ~hasSentimentTag(input) THEN 0
  ELSE LET tag == toLowerCase(input.sentimentTag)
       IN  IF tag \in {"stress", "anxiety", "insomnia"} THEN 2 * STRESS_BUMP
           ELSE IF tag \in {"depression", "hopeless"} THEN 2 * DEPRESSION_BUMP
           ELSE IF tag \in {"positivity", "happy"} THEN -POSITIVITY_MITIGATION
           ELSE 0

\* the switch of lib/stressEvaluation.ts: the adjustment of the voice score
sentimentAdjustment(input) ==
  IF ~hasSentimentTag(input) THEN 0
  ELSE LET tag == toLowerCase(input.sentimentTag)
       IN  IF tag \in {"stress", "anxiety", "insomnia"} THEN STRESS_BUMP
           ELSE IF tag \in {"depression", "hopeless"} THEN DEPRESSION_BUMP
           ELSE IF tag \in {"positivity", "happy"} THEN -POSITIVITY_MITIGATION
           ELSE 0

\* lib/stressEvaluation.ts
evaluateStress(input) ==
  LET voiceScore == input.pitchVariance * 6 + input.energyVariance * 4
                      + sentimentAdjustment(input)
      finalScore == Max(0, Min(10000, voiceScore))
  IN  categorize(finalScore)

\* the switch of the later copy: adjustment and minimum floor
sentimentAdjustmentFloor(input) ==
  IF ~hasSentimentTag(input) THEN [delta |-> 0, minScore |-> 0]
  ELSE LET tag == toLowerCase(input.sentimentTag)
       IN  IF tag \in {"stress", "anxiety", "insomnia", "concern"}
           THEN [delta |-> STRESS_BUMP, minScore |-> STRESS_FLOOR]
           ELSE IF tag \in {"depression", "hopeless"}
           THEN [delta |-> DEPRESSION_BUMP, minScore |-> DEPRESSION_FLOOR]
           ELSE IF tag \in {"positivity", "happy"}
           THEN [delta |-> -POSITIVITY_MITIGATION, minScore |-> 0]
           ELSE [delta |-> 0, minScore |-> 0]

\* the later copy of evaluateStress, with the floor
evaluateStressFloor(input) ==
  LET adj == sentimentAdjustmentFloor(input)
      voiceScore == input.pitchVariance * 6 + input.energyVariance * 4 + adj.delta
      finalScore == Max(adj.minScore, Min(10000, voiceScore))
  IN  categorize(finalScore)

(***************************************************************************)
(* Safety Firewall (safety).                                               *)
(***************************************************************************)
CRISIS_KEYWORDS ==
  << "suicide", "kill myself", "end it all", "die", "hurt myself",
     "want to die", "no way out", "better off dead", "can't go on" >>

\* CONFIG.NEGATIVE_SENTIMENT_THRESHOLD, in hundredths
NEGATIVE_SENTIMENT_THRESHOLD == -60

\* the empirical maxima the raw metrics are normalized against, in thousandths
PITCH_NORMALIZATION_MAX == 100000
ENERGY_NORMALIZATION_MAX == 500

\* a normalization that would leave the ratio unclamped
normalizeWithoutClamp(val, max) == (val * 1000) \div max

\* normalizeMetric(val, max) = Math.min(1, Math.max(0, val / max)), in thousandths
normalizeMetric(val, max) == Min(1000, Max(0, (val * 1000) \div max))

\* the optional parameter specificSuggestions: omitted, or given
NoSuggestions == [given |-> FALSE]
WithSuggestions(list) == [given |-> TRUE, list |-> list]

\* a crisis decision that would leave out the helpline action
createCrisisDecisionWithoutHelpline(reason, specificSuggestions) ==
  [status |-> "CRISIS",
   reason |-> reason,
   actions |-> <<
     [type |-> "BLOCK_GENERATION", content |-> "AI response disabled for safety."],
     [type |-> "SHOW_GROUNDING", content |-> "take_break_breathing"] >>]

createCrisisDecision(reason, specificSuggestions) ==
  [status |-> "CRISIS",
   reason |-> reason,
   actions |-> <<
     [type |-> "BLOCK_GENERATION", content |-> "AI response disabled for safety."],
     IF specificSuggestions.given
     THEN [type |-> "SHOW_GROUNDING", content |-> "take_break_breathing",
           suggestions |-> specificSuggestions.list]
     ELSE [type |-> "SHOW_GROUNDING", content |-> "take_break_breathing"],
     [type |-> "SHOW_HELPLINE",
      content |-> "Please contact immediate professional help or a trusted person."] >>]

\* a scan that would stop after the first configured keyword
firstCrisisKeywordOnly(lowercaseText) ==
  SelectSeq(SubSeq(CRISIS_KEYWORDS, 1, 1),
            LAMBDA keyword : includes(lowercaseText, keyword))

\* RULE 1: the crisis keywords contained in the text, in configuration order
crisisKeywordMatches(lowercaseText) ==
  SelectSeq(CRISIS_KEYWORDS, LAMBDA keyword : includes(lowercaseText, keyword))

\* a comparison that would leave the threshold itself out
strictlyBelowThreshold(textScore) == textScore < NEGATIVE_SENTIMENT_THRESHOLD

\* RULE 2: "textScore <= CONFIG.NEGATIVE_SENTIMENT_THRESHOLD"
extremeNegativeSentiment(textScore) == textScore <= NEGATIVE_SENTIMENT_THRESHOLD

\* RULE 3: the single representative tag handed to the scorer
sentimentTagForStress(tags) ==
  IF arrayIncludes(tags, "stress") THEN "stress"
  ELSE IF arrayIncludes(tags, "anxiety") THEN "anxiety"
  ELSE IF arrayIncludes(tags, "depression") THEN "depression"
  ELSE IF arrayIncludes(tags, "positivity") THEN "positivity"
  ELSE "neutral"

\* "if (input.voiceMetrics)"
hasVoiceMetrics(input) == "voiceMetrics" \in DOMAIN input

\* an evaluation that would test the sentiment score before the keywords
evaluateSafetySentimentFirst(input) ==
  LET analysis == analyzeText(input.text)
      textScore == analysis.score
      lowercaseText == toLowerCase(input.text)
      matches == crisisKeywordMatches(lowercaseText)
      stressResult ==
        evaluateStress(
          [pitchVariance |->
             normalizeMetric(input.voiceMetrics.pitchVariance, PITCH_NORMALIZATION_MAX),
           energyVariance |->
             normalizeMetric(input.voiceMetrics.energyVariance, ENERGY_NORMALIZATION_MAX),
           sentimentTag |-> sentimentTagForStress(analysis.tags)])
  IN  IF extremeNegativeSentiment(textScore)
      THEN createCrisisDecision("Detected extreme negative sentiment score.",
                                NoSuggestions)
      ELSE IF Len(matches) > 0
      THEN createCrisisDecision(
             "Detected high-risk keyword: \"" \o matches[1] \o "\"", NoSuggestions)
      ELSE IF hasVoiceMetrics(input) /\ stressResult.stressLevel = "HIGH"
      THEN createCrisisDecision("Detected HIGH physiological stress markers.",
                                WithSuggestions(stressResult.suggestions))
      ELSE [status |-> "SAFE",
            reason |-> "No safety thresholds breached.",
            actions |-> <<>>]

\* an evaluation in which a recording, when there is one, decides alone
evaluateSafetyVoiceDecides(input) ==
  LET analysis == analyzeText(input.text)
      matches == crisisKeywordMatches(toLowerCase(input.text))
      stressResult ==
        evaluateStress(
          [pitchVariance |->
             normalizeMetric(input.voiceMetrics.pitchVariance, PITCH_NORMALIZATION_MAX),
           energyVariance |->
             normalizeMetric(input.voiceMetrics.energyVariance, ENERGY_NORMALIZATION_MAX),
           sentimentTag |-> sentimentTagForStress(analysis.tags)])
      safe == [status |-> "SAFE",
               reason |-> "No safety thresholds breached.",
               actions |-> <<>>]
  IN  IF hasVoiceMetrics(input)
      THEN IF stressResult.stressLevel = "HIGH"
           THEN createCrisisDecision("Detected HIGH physiological stress markers.",
                                     WithSuggestions(stressResult.suggestions))
           ELSE safe
      ELSE IF Len(matches) > 0
      THEN createCrisisDecision(
             "Detected high-risk keyword: \"" \o matches[1] \o "\"", NoSuggestions)
      ELSE IF extremeNegativeSentiment(analysis.score)
      THEN createCrisisDecision("Detected extreme negative sentiment score.",
                                NoSuggestions)
      ELSE safe

evaluateSafety(input) ==
  LET analysis == analyzeText(input.text)
      textScore == analysis.score
      lowercaseText == toLowerCase(input.text)
      matches == crisisKeywordMatches(lowercaseText)
      stressResult ==
        evaluateStress(
          [pitchVariance |->
             normalizeMetric(input.voiceMetrics.pitchVariance, PITCH_NORMALIZATION_MAX),
           energyVariance |->
             normalizeMetric(input.voiceMetrics.energyVariance, ENERGY_NORMALIZATION_MAX),
           sentimentTag |-> sentimentTagForStress(analysis.tags)])
  IN  IF Len(matches) > 0
      THEN createCrisisDecision(
             "Detected high-risk keyword: \"" \o matches[1] \o "\"", NoSuggestions)
      ELSE IF extremeNegativeSentiment(textScore)
      THEN createCrisisDecision("Detected extreme negative sentiment score.",
                                NoSuggestions)
      ELSE IF hasVoiceMetrics(input) /\ stressResult.stressLevel = "HIGH"
      THEN createCrisisDecision("Detected HIGH physiological stress markers.",
                                WithSuggestions(stressResult.suggestions))
      ELSE [status |-> "SAFE",
            reason |-> "No safety thresholds breached.",
            actions |-> <<>>]

(***************************************************************************)
(* Suggestion Composer (suggestionEngine).                                 *)
(***************************************************************************)
SUGGESTION_POOL ==
  [
    CALM_VOICE |-> <<
       [title |-> "Calm Your Voice",
        description |-> "Your voice indicates high tension. Take a slow drink of water and pause.",
        actionType |-> "BREATHING"],
       [title |-> "Lower Your Pitch",
        description |-> "Try speaking slower and deeper to signal safety to your body.",
        actionType |-> "BREATHING"] >>,
    ANXIETY |-> <<
       [title |-> "4-7-8 Breathing",
        description |-> "Inhale for 4s, hold for 7s, exhale for 8s to calm your nervous system.",
        actionType |-> "BREATHING"],
       [title |-> "Grounding 5-4-3-2-1",
        description |-> "Name 5 things you see, 4 you touch, 3 hear, 2 smell, 1 taste.",
        actionType |-> "MEDITATION"],
       [title |-> "Cold Water Splash",
        description |-> "Splash cold water on your face to trigger the mammalian dive reflex.",
        actionType |-> "NONE"],
       [title |-> "Shake It Out",
        description |-> "Physically shake your hands and limbs to release built-up adrenaline.",
        actionType |-> "EXERCISE"] >>,
    STRESS |-> <<
       [title |-> "Box Breathing",
        description |-> "Inhale 4s, Hold 4s, Exhale 4s, Hold 4s. Reset your rhythm.",
        actionType |-> "BREATHING"],
       [title |-> "Brain Dump",
        description |-> "Write down everything bothering you right now to release the mental load.",
        actionType |-> "JOURNAL"],
       [title |-> "Shoulder Drop",
        description |-> "Drop your shoulders away from your ears and unclench your jaw.",
        actionType |-> "EXERCISE"],
       [title |-> "Walk Away",
        description |-> "Take a 5-minute walk outside or in another room to break the cycle.",
        actionType |-> "EXERCISE"] >>,
    DEPRESSION |-> <<
       [title |-> "Small Step",
        description |-> "Don't overwhelm yourself. Do just one tiny task (e.g., wash one cup).",
        actionType |-> "NONE"],
       [title |-> "Connect",
        description |-> "Reach out to a close friend or family member, even just via text.",
        actionType |-> "NONE"],
       [title |-> "Sunlight",
        description |-> "Try to get 5 minutes of direct sunlight or bright light exposure.",
        actionType |-> "NONE"],
       [title |-> "Comfort Comfort",
        description |-> "Wrap yourself in a warm blanket or wear your favorite hoodie.",
        actionType |-> "NONE"] >>,
    INSOMNIA |-> <<
       [title |-> "Screen Detox",
        description |-> "Dim the lights and put away screens 30 minutes before bed.",
        actionType |-> "NONE"],
       [title |-> "Body Scan",
        description |-> "Lie down and mentally scan your body from toes to head, relaxing each part.",
        actionType |-> "MEDITATION"],
       [title |-> "Write Tomorrow",
        description |-> "Write down your to-do list for tomorrow so your brain can stop rehearsing it.",
        actionType |-> "JOURNAL"],
       [title |-> "4-7-8 Sleep",
        description |-> "Use the 4-7-8 breathing technique to lower your heart rate for sleep.",
        actionType |-> "BREATHING"] >>,
    POSITIVITY |-> <<
       [title |-> "Gratitude Journal",
        description |-> "Write down 3 things that made you feel good specifically.",
        actionType |-> "JOURNAL"],
       [title |-> "Share the Joy",
        description |-> "Tell someone else about your good news to amplify the feeling.",
        actionType |-> "NONE"],
       [title |-> "Savoring",
        description |-> "Take a moment to fully appreciate this positive emotion. Where do you feel it?",
        actionType |-> "MEDITATION"] >>,
    NEUTRAL |-> <<
       [title |-> "Hydrate",
        description |-> "Take a moment to drink a full glass of water. hydration supports brain function.",
        actionType |-> "NONE"],
       [title |-> "Creative Flow",
        description |-> "Spend 5 minutes doodling or drawing whatever comes to mind.",
        actionType |-> "JOURNAL"],
       [title |-> "Box Breathing",
        description |-> "Practice a round of Box Breathing to maintain your calm state.",
        actionType |-> "BREATHING"],
       [title |-> "Stretch",
        description |-> "Stand up and do a quick stretch to release any subtle tension.",
        actionType |-> "EXERCISE"],
       [title |-> "Mindful Pause",
        description |-> "Close your eyes for 60 seconds and just listen to the sounds around you.",
        actionType |-> "MEDITATION"] >>
  ]

\* a value that is null or undefined
Null == [null |-> TRUE]

\* the caps of the conditions of generateSuggestions
VOICE_PITCH_LIMIT == 400
CALM_VOICE_COUNT == 1
ANXIETY_COUNT == 2
STRESS_COUNT == 2
DEPRESSION_COUNT == 2
INSOMNIA_COUNT == 2
POSITIVITY_COUNT == 1
NEUTRAL_COUNT == 2
MAX_SUGGESTIONS == 3

\* a slice that would take one element too many
sliceOneMore(arr, count) == SubSeq(arr, 1, Min(count + 1, Len(arr)))

\* arr.slice(0, count)
slice(arr, count) == SubSeq(arr, 1, Min(count, Len(arr)))

\* [...pool].sort(() => 0.5 - Math.random()).slice(0, count), where
\* sortOrder[key] is the order the random sort leaves the pool in
getRandomSuggestions(key, count, sortOrder) ==
  LET pool == SUGGESTION_POOL[key]
      shuffled == [i \in 1..Len(pool) |-> pool[sortOrder[key][i]]]
  IN  slice(shuffled, count)

generateSuggestions(tags, voiceMetrics, sortOrder) ==
  LET uniqueTags == {tags[i] : i \in 1..Len(tags)}
      s1 == IF voiceMetrics # Null /\ voiceMetrics.pitchVariance > VOICE_PITCH_LIMIT
            THEN getRandomSuggestions("CALM_VOICE", CALM_VOICE_COUNT, sortOrder)
            ELSE <<>>
      s2 == IF "anxiety" \in uniqueTags
            THEN s1 \o getRandomSuggestions("ANXIETY", ANXIETY_COUNT, sortOrder)
            ELSE s1
      s3 == IF "stress" \in uniqueTags
            THEN s2 \o getRandomSuggestions("STRESS", STRESS_COUNT, sortOrder)
            ELSE s2
      s4 == IF "depression" \in uniqueTags
            THEN s3 \o getRandomSuggestions("DEPRESSION", DEPRESSION_COUNT, sortOrder)
            ELSE s3
      s5 == IF "insomnia" \in uniqueTags
            THEN s4 \o getRandomSuggestions("INSOMNIA", INSOMNIA_COUNT, sortOrder)
            ELSE s4
      s6 == IF "positivity" \in uniqueTags
            THEN s5 \o getRandomSuggestions("POSITIVITY", POSITIVITY_COUNT, sortOrder)
            ELSE s5
      s7 == IF Len(s6) = 0
            THEN s6 \o getRandomSuggestions("NEUTRAL", NEUTRAL_COUNT, sortOrder)
            ELSE s6
  IN  slice(s7, MAX_SUGGESTIONS)

(***************************************************************************)
(* Feature Extractor (audioAnalysis).  A buffer is its length in samples,  *)
(* its sample rate and, for every analysis window, the values that         *)
(* calculateRMS (in thousandths) and detectPitchAutocorrelation (in Hz)    *)
(* return for it.  A metric that is not a number is NaN.                   *)
(***************************************************************************)
WINDOW_SIZE == 2048
HOP_SIZE == 1024
\* "rms > 0.01", in thousandths
VOICING_THRESHOLD == 10
\* smoothArray(energyEnvelope, 3)
SMOOTHING_RADIUS == 3
\* "avgEnergy * 0.8" and "threshold * 0.5", in tenths
PEAK_FACTOR == 8
RESET_FACTOR == 5
\* the least common multiple of the window counts 1..7 of the moving average
SMOOTHING_SCALE == 420
\* stands for NaN among the metrics, which are never negative
NaN == -1

\* the starts i = 0, hopSize, ... with i < channelData.length - windowSize
windowCount(length) ==
  IF length <= WINDOW_SIZE THEN 0
  ELSE ((length - WINDOW_SIZE - 1) \div HOP_SIZE) + 1

\* Math.sqrt, rounded down
RECURSIVE sqrtBetween(_, _, _)
sqrtBetween(x, lo, hi) ==
  IF lo >= hi THEN lo
  ELSE LET mid == (lo + hi + 1) \div 2
       IN  IF mid * mid <= x THEN sqrtBetween(x, mid, hi)
           ELSE sqrtBetween(x, lo, mid - 1)
sqrt(x) == sqrtBetween(x, 0, Min(x, 46340))

\* a / b of two numbers, NaN for 0 / 0
divide(a, b) == IF b = 0 THEN NaN ELSE a \div b

\* the standard deviation of the data times scale, rounded down:
\* sqrt(sum((x - mean)^2) / n) = sqrt(n * sum(x^2) - sum(x)^2) / n
calculateStandardDeviation(data, scale) ==
  IF Len(data) = 0 THEN 0
  ELSE LET n == Len(data)
           squares == sumSeq([k \in 1..n |-> data[k] * data[k]])
           total == sumSeq(data)
       IN  divide(sqrt((n * squares - total * total) * scale * scale), n)

\* the moving average of radius SMOOTHING_RADIUS, times SMOOTHING_SCALE
smoothArray(data, radius) ==
  [i \in 1..Len(data) |->
     LET from == Max(1, i - radius)
         to == Min(Len(data), i + radius)
     IN  sumSeq(SubSeq(data, from, to)) * (SMOOTHING_SCALE \div (to - from + 1))]

\* a comparison that would also count a window at the threshold
exceedsOrMeets(value, n, total) == value * n * 10 >= PEAK_FACTOR * total

\* "smoothed[i] > threshold", threshold = avgEnergy * 0.8, avgEnergy = total / n
exceedsThreshold(value, n, total) == value * n * 10 > PEAK_FACTOR * total

\* a reset that would need no more than a drop below the threshold
belowThreshold(value, n, total) == value * n * 10 < PEAK_FACTOR * total

\* "smoothed[i] < threshold * 0.5"
belowReset(value, n, total) == value * n * 100 < PEAK_FACTOR * RESET_FACTOR * total

\* the scan of the smoothed envelope: the peaks counted in smoothed[1..k]
\* and whether the scan is above after window k
RECURSIVE scanPeaks(_, _, _)
scanPeaks(smoothed, k, total) ==
  IF k = 0 THEN [peaks |-> 0, isAbove |-> FALSE]
  ELSE LET before == scanPeaks(smoothed, k - 1, total)
           n == Len(smoothed)
       IN  IF ~before.isAbove /\ exceedsThreshold(smoothed[k], n, total)
           THEN [peaks |-> before.peaks + 1, isAbove |-> TRUE]
           ELSE IF before.isAbove /\ belowReset(smoothed[k], n, total)
           THEN [peaks |-> before.peaks, isAbove |-> FALSE]
           ELSE before

\* peaks per second in thousandths, the duration being in milliseconds
estimateSpeakingRate(energyEnvelope, durationMs) ==
  IF durationMs <= 0 \/ Len(energyEnvelope) = 0 THEN 0
  ELSE LET smoothed == smoothArray(energyEnvelope, SMOOTHING_RADIUS)
           peaks == scanPeaks(smoothed, Len(smoothed), sumSeq(smoothed)).peaks
       IN  divide(peaks * 1000000, durationMs)

\* "Number.isNaN(x) ? 0 : x"
orZero(x) == IF x = NaN THEN 0 ELSE x

\* buffer.duration = length / sampleRate, in milliseconds
durationOf(buffer) == (buffer.length * 1000) \div buffer.sampleRate

analyzeStress(buffer) ==
  LET windows == buffer.windows
      energies == [k \in 1..Len(windows) |-> windows[k].rms]
      voiced == SelectSeq(windows,
                          LAMBDA w : w.rms > VOICING_THRESHOLD /\ w.pitch > 0)
      pitches == [k \in 1..Len(voiced) |-> voiced[k].pitch]
      \* Hz to thousandths of Hz through tenths
      pitchVariance ==
        LET sd == calculateStandardDeviation(pitches, 10)
        IN  IF sd = NaN THEN NaN ELSE sd * 100
      energyVariance == calculateStandardDeviation(energies, 1)
      speakingRate == estimateSpeakingRate(energies, durationOf(buffer))
  IN  [pitchVariance |-> orZero(pitchVariance),
       energyVariance |-> orZero(energyVariance),
       speakingRate |-> orZero(speakingRate),
       duration |-> durationOf(buffer)]

(***************************************************************************)
(* Prompt Builder (promptBuilder).                                         *)
(***************************************************************************)
\* themes.join(', ')
RECURSIVE join(_)
join(themes) ==
  IF Len(themes) = 0 THEN ""
  ELSE IF Len(themes) = 1 THEN themes[1]
  ELSE themes[1] \o ", " \o join(Tail(themes))

buildGroundingPrompt(context) ==
  LET themeString == IF Len(context.themes) > 0 THEN join(context.themes)
                     ELSE "general balance"
  IN  "User stress level: " \o context.stressLevel \o "\n"
      \o "Detected themes: " \o themeString \o "\n\n"
      \o "Generate 2 short, non-medical, grounding suggestions.\n"
      \o "No diagnosis. No therapy. No emergency language.\n"
      \o "Tone: calm and supportive."

\* the template's three back quotes are written ''' here
buildSuggestionPrompt(context) ==
  LET themeString == IF Len(context.themes) > 0 THEN join(context.themes)
                     ELSE "general balance"
  IN  "You are a supportive mental health companion.\n"
      \o "Context:\n"
      \o "- User Stress Level: " \o context.stressLevel \o " (Low/Moderate/High)\n"
      \o "- Detected Mood/Themes: " \o themeString \o "\n\n"
      \o "Task:\n"
      \o "Generate 3 actionable, short, and calming suggestions.\n"
      \o "The output MUST be a strict JSON array with no markdown formatting.\n"
      \o "Each object in the array must have:\n"
      \o "- \"title\": string (max 5 words)\n"
      \o "- \"description\": string (max 15 words)\n"
      \o "- \"actionType\": one of [\"BREATHING\", \"JOURNAL\", \"MEDITATION\", \"EXERCISE\", \"NONE\"]\n\n"
      \o "Example Output:\n"
      \o "[\n"
      \o "  { \"title\": \"Deep Breath\", \"description\": \"Take a deep breath for 4 seconds.\", \"actionType\": \"BREATHING\" }\n"
      \o "]\n\n"
      \o "Do not include '''json blocks. Just the raw JSON string."

\* the prompt the route builds from a request body: "themes: themes || []"
routePrompt(body) ==
  buildSuggestionPrompt([stressLevel |-> body.stressLevel,
                         themes |-> IF "themes" \in DOMAIN body THEN body.themes
                                    ELSE << >>])

(***************************************************************************)
(* Suggestion API route (api/ask-gemini).  A request is its JSON body, or  *)
(* has none that parses; generates says, for each model, whether           *)
(* generateContent and JSON.parse of its reply both succeed.  A themes     *)
(* that is a JSON string, not an array, is the field themesText.           *)
(***************************************************************************)
modelsToTry ==
  << "gemma-3-1b-it", "gemma-3-4b-it", "gemma-3-12b-it", "gemma-3-27b-it" >>

\* "await req.json()" throws
Unparsable == [unparsable |-> TRUE]

\* "!stressLevel": the field is absent or the empty string
missingStressLevel(body) ==
  "stressLevel" \notin DOMAIN body \/ body.stressLevel = ""

\* what JSON.parse returned for the reply of a model
parsedReply(modelName) == [parsedReplyOf |-> modelName]

\* "buildSuggestionPrompt({stressLevel, themes: themes || []})" throws: a
\* themes that is a non-empty string has a length and no join
promptThrows(body) ==
  "themesText" \in DOMAIN body /\ body.themesText # ""

\* a loop that would stop before the last model
RECURSIVE tryModelsButLast(_, _, _)
tryModelsButLast(k, attempts, generates) ==
  IF k >= Len(modelsToTry)
  THEN [status |-> 500, error |-> "All AI models failed or busy", attempts |-> attempts]
  ELSE LET modelName == modelsToTry[k]
       IN  IF generates[modelName]
           THEN [status |-> 200, suggestions |-> parsedReply(modelName),
                 modelUsed |-> modelName, attempts |-> Append(attempts, modelName)]
           ELSE tryModelsButLast(k + 1, Append(attempts, modelName), generates)

\* the loop over modelsToTry from the k-th model on, attempts being the
\* models tried before it
RECURSIVE tryModels(_, _, _)
tryModels(k, attempts, generates) ==
  IF k > Len(modelsToTry)
  THEN [status |-> 500, error |-> "All AI models failed or busy", attempts |-> attempts]
  ELSE LET modelName == modelsToTry[k]
       IN  IF generates[modelName]
           THEN [status |-> 200, suggestions |-> parsedReply(modelName),
                 modelUsed |-> modelName, attempts |-> Append(attempts, modelName)]
           ELSE tryModels(k + 1, Append(attempts, modelName), generates)

POST(apiKey, req, generates) ==
  IF ~apiKey
  THEN [status |-> 503, error |-> "GEMINI_API_KEY not configured", attempts |-> << >>]
  ELSE IF req = Unparsable
  THEN [status |-> 500, error |-> "Internal Server Error", attempts |-> << >>]
  ELSE IF missingStressLevel(req)
  THEN [status |-> 400, error |-> "Missing stressLevel", attempts |-> << >>]
  ELSE IF promptThrows(req)
  THEN [status |-> 500, error |-> "Internal Server Error", attempts |-> << >>]
  ELSE tryModels(1, << >>, generates) @@ [prompt |-> routePrompt(req)]

(***************************************************************************)
(* Voice Recorder (VoiceRecorder).  A blob is its size in bytes and        *)
(* whether decodeAudioData accepts it; backend is what the transcription   *)
(* backend does with a request; transcript is what the Web Speech API has  *)
(* recognised so far.  The result lists the HTTP requests sent and the     *)
(* callbacks called, in order.                                             *)
(***************************************************************************)
\* "if (blob.size < 1000) return null"
MIN_BLOB_SIZE == 1000

\* the request of transcribeWithBackend
transcribeRequest(blob) ==
  [url |-> "http://localhost:5000/transcribe", method |-> "POST",
   body |-> [file |-> blob, filename |-> "recording.webm"]]

\* the requests sent, and the text returned; "" is for null, which
\* "if (backendText && ...)" takes the same way
transcribeWithBackend(blob, backend) ==
  IF blob.size < MIN_BLOB_SIZE THEN [requests |-> << >>, text |-> ""]
  ELSE [requests |-> << transcribeRequest(blob) >>,
        text |-> IF backend.reached /\ backend.ok /\ backend.text # ""
                 THEN backend.text ELSE ""]

processAudio(blob, backend, transcript) ==
  IF ~blob.decodes
  THEN [requests |-> << >>, callbacks |-> << >>,
        error |-> "Failed to process audio recording."]
  ELSE LET transcribed == transcribeWithBackend(blob, backend)
           backendText == transcribed.text
           decoded == [name |-> "onProcessingComplete", audioBuffer |-> blob]
       IN  [requests |-> transcribed.requests,
            callbacks |->
              IF backendText # ""
              THEN << decoded, [name |-> "onTranscriptionComplete", text |-> backendText] >>
              ELSE IF transcript # ""
              THEN << decoded, [name |-> "onTranscriptionComplete",
                                text |-> trim(transcript)] >>
              ELSE << decoded >>,
            error |-> ""]

(***************************************************************************)
(* Inputs.                                                                 *)
(***************************************************************************)
\* what journal texts are made of: plain words, crisis phrases, dictionary
\* keywords in either case, and words that merely contain a keyword
Fragments ==
  << "I feel fine", "on a diet", "Kill Myself", "so SAD", "exhausted",
     "Hopeless", "happy and calm", "tired of pain" >>

RECURSIVE joinFragments(_)
joinFragments(idx) ==
  IF Len(idx) = 0 THEN ""
  ELSE IF Len(idx) = 1 THEN Fragments[idx[1]]
  ELSE Fragments[idx[1]] \o " " \o joinFragments(Tail(idx))

\* a choice of at most MaxFrags fragments, coded as the digits of a number:
\* digit 0 is no fragment; digits never increase, so that every multiset of
\* fragments is chosen once
FragmentBase == Len(Fragments) + 1
fragmentDigit(c, k) == (c \div (FragmentBase ^ (k - 1))) % FragmentBase
fragmentsOf(c) ==
  SelectSeq([k \in 1..MaxFrags |-> fragmentDigit(c, k)], LAMBDA d : d > 0)
FragmentChoices ==
  {c \in 0..(FragmentBase ^ MaxFrags - 1) :
     \A k \in 1..(MaxFrags - 1) : fragmentDigit(c, k) >= fragmentDigit(c, k + 1)}

\* whole journal entries: the documented example, and one with more matches
\* than the score's range holds
ExampleTexts ==
  {"I am feeling so overwhelmed and I can't sleep at all",
   "sad lonely empty numb, heavy with grief and crying"}

\* the texts of at most MaxFrags fragments, and the whole entries
Texts == {joinFragments(fragmentsOf(c)) : c \in FragmentChoices} \cup ExampleTexts

\* raw voice metrics as analyzeStress reports them: the standard deviation of
\* the pitch in thousandths of Hz and of the RMS energy in thousandths
VoiceSamples ==
  {[pitchVariance |-> p, energyVariance |-> e, speakingRate |-> 0, duration |-> 1000] :
     p \in {0, 50000, 100000, 150000}, e \in {0, 250, 500}}

\* what one analysis window yields: its RMS energy in thousandths (silent,
\* below the voicing threshold, voiced) and, when voiced, the pitch found
WindowValues ==
  {[rms |-> 0, pitch |-> 0], [rms |-> 5, pitch |-> 0]}
  \cup {[rms |-> r, pitch |-> f] : r \in {200, 800}, f \in {0, 100, 300}}

\* the sample rates of a recording
SampleRates == {44100, 48000}

\* recordings: the empty one, one of exactly one window's length, and those
\* of one to MaxWindows analysis windows
AudioBuffers ==
  {[length |-> l, sampleRate |-> r, windows |-> << >>] :
     l \in {0, WINDOW_SIZE}, r \in SampleRates}
  \cup UNION {{[length |-> WINDOW_SIZE + 1 + (n - 1) * HOP_SIZE, sampleRate |-> r,
                windows |-> w] : r \in SampleRates, w \in [1..n -> WindowValues]} :
              n \in 1..MaxWindows}

\* every sample of the recording is zero
silent(buffer) == \A k \in 1..Len(buffer.windows) : buffer.windows[k].rms = 0

\* recordings as the recorder holds them
Blobs == {[size |-> n, decodes |-> d] : n \in {0, 999, 1000, 48000}, d \in BOOLEAN}

\* the transcription backend: unreachable, an error status, no text, a text
Backends ==
  {[reached |-> FALSE, ok |-> FALSE, text |-> ""],
   [reached |-> TRUE, ok |-> FALSE, text |-> ""],
   [reached |-> TRUE, ok |-> TRUE, text |-> ""],
   [reached |-> TRUE, ok |-> TRUE, text |-> "so Overwhelmed"]}

\* what speech recognition has heard
Transcripts == {"", "under pressure "}

\* the requests the route is called with: bodies as the page sends them,
\* bodies lacking a field, and one that is no JSON
RouteRequests ==
  {[stressLevel |-> l, themes |-> t] :
     l \in {"LOW", "MODERATE", "HIGH", ""},
     t \in {<< >>, <<"stress">>, <<"depression", "insomnia">>}}
  \cup {[stressLevel |-> "LOW"], [themes |-> <<"stress">>], Unparsable,
        [stressLevel |-> "HIGH", themesText |-> "stress"],
        [stressLevel |-> "HIGH", themesText |-> ""]}

\* which models answer with JSON that parses
ModelOutcomes == [{modelsToTry[k] : k \in 1..Len(modelsToTry)} -> BOOLEAN]

\* the points of [0,1] the scorer is called with, in thousandths
StressPoints == {(k * 1000) \div StressGrid : k \in 0..StressGrid}

\* the sentiment tags the scorer is called with; absent is no field at all
StressTags ==
  {"", "neutral", "stress", "STRESS", "Anxiety", "insomnia", "concern", "Concern",
   "depression", "hopeless", "positivity", "Happy", "fatigue"}

StressInputs ==
  {[pitchVariance |-> p, energyVariance |-> e] : p \in StressPoints, e \in StressPoints}
  \cup {[pitchVariance |-> p, energyVariance |-> e, sentimentTag |-> t] :
          p \in StressPoints, e \in StressPoints, t \in StressTags}

\* the texts, recordings and random sort orders of the pipeline
PipelineTexts ==
  {"I feel fine", "on a diet", "tired of pain", "so Overwhelmed", "under pressure"}

PipelineMetrics ==
  {[pitchVariance |-> 0, energyVariance |-> 0, speakingRate |-> 0, duration |-> 1000],
   [pitchVariance |-> 150000, energyVariance |-> 700, speakingRate |-> 2000,
    duration |-> 1000]}

\* the firewall's inputs in the pipeline: a journal text or the first trigger
\* of the last analysis, with the voice metrics of a recording or without
PipelineTriggers ==
  {""} \cup {analyzeText(text).triggers[analyzeText(text).tags[1]][1] :
             text \in {t \in PipelineTexts : analyzeText(t).tags # <<"neutral">>}}

PipelineSafetyInputs ==
  {[text |-> text] : text \in PipelineTexts}
  \cup {[text |-> text, voiceMetrics |-> voiceMetrics] :
          text \in PipelineTexts \cup PipelineTriggers, voiceMetrics \in PipelineMetrics}

\* analyzeText and evaluateSafety tabulated over the inputs of the pipeline
analyzeTextOf == [text \in PipelineTexts |-> analyzeText(text)] @@ <<>>
evaluateSafetyOf == [input \in PipelineSafetyInputs |-> evaluateSafety(input)] @@ <<>>

\* the sort order that rotates every pool by s places
rotation(s) ==
  [key \in DOMAIN SUGGESTION_POOL |->
     [i \in 1..Len(SUGGESTION_POOL[key]) |->
        ((i - 1 + s) % Len(SUGGESTION_POOL[key])) + 1]]

SortOrders == {rotation(s) : s \in 0..(MaxShuffles - 1)}

\* the tag lists the composer is called with: every choice among the five
\* tags with a pool, in the order the tagger finds them, and the lists that
\* match no condition or repeat a tag
PoolTags == << "anxiety", "stress", "depression", "insomnia", "positivity" >>
SuggestionTagLists ==
  {SelectSeq(PoolTags, LAMBDA t : t \in chosen) :
     chosen \in SUBSET {PoolTags[k] : k \in 1..Len(PoolTags)}}
  \cup {<<"neutral">>, <<"concern">>, <<"stress", "stress">>, <<"neutral", "insomnia">>}

\* the voice metrics the composer is called with: none, and pitch variances
\* below, at and above 0.4
SuggestionVoiceMetrics ==
  {Null} \cup {[pitchVariance |-> pv, energyVariance |-> 0, speakingRate |-> 0,
                duration |-> 1000] : pv \in {0, 400, 401, 150000}}

\* energy envelopes of silent and loud windows, and the durations they are
\* given with, in milliseconds
EnvelopeLevels == {0, 800}
Envelopes == UNION {[1..n -> EnvelopeLevels] : n \in 0..MaxEnvelope}
EnvelopeDurations == {0, 500}

\* well-formed suggestions of the remote service
RemoteSuggestion(n) ==
  [title |-> "Remote tip " \o ToString(n),
   description |-> "A short calming suggestion.",
   actionType |-> "BREATHING"]

JsonArray(items) == [isArray |-> TRUE, items |-> items]
JsonNotArray == [isArray |-> FALSE]

\* what the request to /api/ask-gemini can come back with
RemoteOutcomes ==
  { [kind |-> "networkError"],
    [kind |-> "status", ok |-> FALSE],
    [kind |-> "invalidJson", ok |-> TRUE],
    [kind |-> "json", ok |-> TRUE, data |-> Null],
    [kind |-> "json", ok |-> TRUE, data |-> [error |-> "All AI models failed or busy"]],
    [kind |-> "json", ok |-> TRUE,
     data |-> [suggestions |-> JsonNotArray, modelUsed |-> "gemma-3-1b-it"]],
    [kind |-> "json", ok |-> TRUE,
     data |-> [suggestions |-> JsonArray(<<>>), modelUsed |-> "gemma-3-1b-it"]],
    [kind |-> "json", ok |-> TRUE,
     data |-> [suggestions |->
                 JsonArray(<<RemoteSuggestion(1), RemoteSuggestion(2),
                             RemoteSuggestion(3)>>)]],
    [kind |-> "json", ok |-> TRUE,
     data |-> [suggestions |->
                 JsonArray(<<RemoteSuggestion(1), RemoteSuggestion(2),
                             RemoteSuggestion(3), RemoteSuggestion(4)>>),
               modelUsed |-> "gemma-3-4b-it"]],
    [kind |-> "json", ok |-> TRUE,
     data |-> [suggestions |-> JsonArray(<<[text |-> "just relax"]>>),
               modelUsed |-> "gemma-3-4b-it"]] }

(***************************************************************************)
(* State of the page component (Home) and of its running handlers.         *)
(***************************************************************************)
VARIABLES
  isBlocked,              \* useState(false): the grounding screen is shown
  isSuggestionModalOpen,  \* useState(false)
  aiDebugData,            \* useState({prompt: null, response: null, model: ''})
  insights,               \* useState({voiceMetrics: null, ...})
  invocations,            \* the handler invocations, in the order they started
  call,                   \* the last call of a library function and its result
  settings                \* the 'settings' store of the database, by key

vars ==
  << isBlocked, isSuggestionModalOpen, aiDebugData, insights, invocations, call,
     settings >>
homeVars == << isBlocked, isSuggestionModalOpen, aiDebugData, insights, invocations >>

InitHome ==
  /\ isBlocked = FALSE
  /\ isSuggestionModalOpen = FALSE
  /\ aiDebugData = [prompt |-> Null, response |-> Null, model |-> ""]
  /\ insights = [voiceMetrics |-> Null, textResult |-> Null, safetyStatus |-> Null,
                 safetyDecision |-> Null, suggestions |-> <<>>]
  /\ invocations = <<>>

Init ==
  /\ InitHome
  /\ call = [op |-> "none"]
  /\ settings = << >>

\* the mode the Settings screen shows: "useState('offline')", replaced by
\* the stored mode when there is one
storedMode ==
  IF "app_mode" \in DOMAIN settings THEN settings.app_mode ELSE "offline"

\* the body of the try block: the suggestions taken from the response, or
\* none when the request fails, the status is not ok, the body does not
\* parse, or data.suggestions is not a non-empty array
remoteSuggestions(outcome) ==
  IF /\ outcome.kind = "json"
     /\ outcome.data # Null
     /\ "suggestions" \in DOMAIN outcome.data
     /\ outcome.data.suggestions.isArray
     /\ Len(outcome.data.suggestions.items) > 0
  THEN outcome.data.suggestions.items
  ELSE <<>>

\* the shape of a Suggestion
ACTION_TYPES == {"BREATHING", "JOURNAL", "MEDITATION", "EXERCISE", "NONE"}
isSuggestion(x) ==
  /\ DOMAIN x = {"title", "description", "actionType"}
  /\ x.actionType \in ACTION_TYPES

\* what came back, by shape: the request failed (it threw or the status was
\* not a success), the payload was malformed (not {suggestions: list of
\* Suggestion}), or it was well formed
responseShape(outcome) ==
  IF outcome.kind = "networkError" \/ ~outcome.ok THEN "failed"
  ELSE IF /\ outcome.kind = "json"
          /\ outcome.data # Null
          /\ "suggestions" \in DOMAIN outcome.data
          /\ outcome.data.suggestions.isArray
          /\ \A k \in 1..Len(outcome.data.suggestions.items) :
                isSuggestion(outcome.data.suggestions.items[k])
  THEN "wellFormed"
  ELSE "malformed"

\* data.modelUsed || 'Gemini API'
modelOf(outcome) ==
  IF "modelUsed" \in DOMAIN outcome.data THEN outcome.data.modelUsed ELSE "Gemini API"

\* setAiDebugData(prev => ({...prev, response, model})) when suggestions were taken
debugAfterResponse(prev, outcome) ==
  IF Len(remoteSuggestions(outcome)) > 0
  THEN [prev EXCEPT !.response = remoteSuggestions(outcome), !.model = modelOf(outcome)]
  ELSE prev

\* currentTextResult.triggers[Object.keys(currentTextResult.triggers)[0]]?.[0] || ''
firstTrigger(currentTextResult) ==
  IF currentTextResult = Null THEN ""
  ELSE IF DOMAIN currentTextResult.triggers = {} THEN ""
  ELSE currentTextResult.triggers[currentTextResult.tags[1]][1]

(***************************************************************************)
(* handleAudioProcessing                                                   *)
(***************************************************************************)
\* a recording completes: analyzeStress, then await saveMetrics
StartAudio(metrics) ==
  /\ Len(invocations) < MaxInvocations
  /\ invocations' = Append(invocations,
       [handler |-> "handleAudioProcessing", pc |-> "saveMetrics",
        metrics |-> metrics, currentTextResult |-> insights.textResult])
  /\ UNCHANGED << isBlocked, isSuggestionModalOpen, aiDebugData, insights, call, settings >>

\* a flag that follows the decision of each invocation
blockFollowsDecision(decision, blocked) ==
  decision.status = "CRISIS"

\* "if (decision.status === 'CRISIS') { setIsBlocked(true); }": there is no
\* else branch, a decision that is not CRISIS leaves the flag as it was
blockOnCrisis(decision, blocked) ==
  IF decision.status = "CRISIS" THEN TRUE ELSE blocked

\* the guard of the request in handleAudioProcessing: there is none
audioAttemptsRemote(safetyDecision) == TRUE

\* an import of the prompt builder that no decision would guard
buildsPromptAlways(safetyDecision) == TRUE

\* "if (safetyDecision.status === 'SAFE')" around the import of the prompt builder
audioBuildsPrompt(safetyDecision) == safetyDecision.status = "SAFE"

\* the argument of evaluateSafety in handleAudioProcessing
audioSafetyInput(metrics, currentTextResult) ==
  [text |-> firstTrigger(currentTextResult), voiceMetrics |-> metrics]

\* the argument of evaluateStress in handleAudioProcessing: the raw metrics
\* and currentTextResult?.tags[0]
audioStressInput(metrics, currentTextResult) ==
  IF currentTextResult = Null
  THEN [pitchVariance |-> metrics.pitchVariance,
        energyVariance |-> metrics.energyVariance]
  ELSE [pitchVariance |-> metrics.pitchVariance,
        energyVariance |-> metrics.energyVariance,
        sentimentTag |-> currentTextResult.tags[1]]

\* "body: JSON.stringify({stressLevel: newStatus.stressLevel, themes: activeTags})"
audioRequestBody(newStatus, activeTags) ==
  [stressLevel |-> newStatus.stressLevel, themes |-> activeTags]

\* saveMetrics resolves: the firewall, the scorer, and the request is sent
AudioMetricsSaved(i) ==
  /\ invocations[i].handler = "handleAudioProcessing"
  /\ invocations[i].pc = "saveMetrics"
  /\ LET inv == invocations[i]
         currentTextResult == inv.currentTextResult
         safetyInput == audioSafetyInput(inv.metrics, currentTextResult)
         safetyDecision == evaluateSafetyOf[safetyInput]
         stressInput == audioStressInput(inv.metrics, currentTextResult)
         newStatus == evaluateStress(stressInput)
         activeTags == IF currentTextResult = Null THEN <<>> ELSE currentTextResult.tags
     IN  /\ audioAttemptsRemote(safetyDecision)
         /\ isBlocked' = blockOnCrisis(safetyDecision, isBlocked)
         /\ invocations' = [invocations EXCEPT ![i] =
              [handler |-> inv.handler, pc |-> "fetch", metrics |-> inv.metrics,
               safetyInput |-> safetyInput, stressInput |-> stressInput,
               safetyDecision |-> safetyDecision, newStatus |-> newStatus,
               activeTags |-> activeTags,
               request |-> audioRequestBody(newStatus, activeTags)]]
  /\ UNCHANGED << isSuggestionModalOpen, aiDebugData, insights, call, settings >>

\* saveMetrics rejects: the await throws out of the handler
AudioMetricsSaveFailed(i) ==
  /\ invocations[i].handler = "handleAudioProcessing"
  /\ invocations[i].pc = "saveMetrics"
  /\ invocations' = [invocations EXCEPT ![i] =
       [handler |-> invocations[i].handler, pc |-> "threw"]]
  /\ UNCHANGED << isBlocked, isSuggestionModalOpen, aiDebugData, insights, call, settings >>

\* the request settles: the response is read, the fallback applied, the state
\* updated, and the prompt builder imported when the decision was SAFE
AudioRemoteSettled(i, outcome, sortOrder) ==
  /\ invocations[i].handler = "handleAudioProcessing"
  /\ invocations[i].pc = "fetch"
  /\ LET inv == invocations[i]
         fromRemote == remoteSuggestions(outcome)
         generatedSuggestions ==
           IF Len(fromRemote) = 0
           THEN generateSuggestions(inv.activeTags, inv.metrics, sortOrder)
           ELSE fromRemote
     IN  /\ aiDebugData' = debugAfterResponse(aiDebugData, outcome)
         /\ isSuggestionModalOpen' =
              IF Len(generatedSuggestions) > 0 THEN TRUE ELSE isSuggestionModalOpen
         /\ insights' = [insights EXCEPT !.voiceMetrics = inv.metrics,
                                         !.safetyStatus = inv.newStatus,
                                         !.safetyDecision = inv.safetyDecision,
                                         !.suggestions = generatedSuggestions]
         /\ invocations' = [invocations EXCEPT ![i] =
              [handler |-> inv.handler,
               pc |-> IF audioBuildsPrompt(inv.safetyDecision) THEN "import" ELSE "done",
               safetyInput |-> inv.safetyInput, stressInput |-> inv.stressInput,
               safetyDecision |-> inv.safetyDecision, newStatus |-> inv.newStatus,
               activeTags |-> inv.activeTags, request |-> inv.request,
               response |-> responseShape(outcome),
               usedLocal |-> (Len(fromRemote) = 0),
               generatedSuggestions |-> generatedSuggestions,
               stateUpdated |-> TRUE]]
  /\ UNCHANGED << isBlocked, call, settings >>

\* import('./lib/promptBuilder') resolves: the prompt is built and logged
AudioPromptBuilt(i) ==
  /\ invocations[i].handler = "handleAudioProcessing"
  /\ invocations[i].pc = "import"
  /\ LET inv == invocations[i]
     IN  invocations' = [invocations EXCEPT ![i] =
           [handler |-> inv.handler, pc |-> "done",
            safetyInput |-> inv.safetyInput, stressInput |-> inv.stressInput,
            safetyDecision |-> inv.safetyDecision, newStatus |-> inv.newStatus,
            activeTags |-> inv.activeTags, request |-> inv.request,
            response |-> inv.response, usedLocal |-> inv.usedLocal,
            generatedSuggestions |-> inv.generatedSuggestions,
            stateUpdated |-> inv.stateUpdated,
            prompt |-> buildGroundingPrompt([stressLevel |-> inv.newStatus.stressLevel,
                                             themes |-> inv.activeTags])]]
  /\ UNCHANGED << isBlocked, isSuggestionModalOpen, aiDebugData, insights, call, settings >>

(***************************************************************************)
(* handleJournalEntry                                                      *)
(***************************************************************************)
\* the synchronous head of the handler: the tagger, the firewall, the scorer
\* the argument of evaluateSafety: voiceMetrics: currentVoiceMetrics || undefined
journalSafetyInput(text, currentVoiceMetrics) ==
  IF currentVoiceMetrics = Null
  THEN [text |-> text]
  ELSE [text |-> text, voiceMetrics |-> currentVoiceMetrics]

\* the argument of evaluateStress: currentVoiceMetrics?.pitchVariance || 0,
\* currentVoiceMetrics?.energyVariance || 0, result.tags[0]
journalStressInput(result, currentVoiceMetrics) ==
  [pitchVariance |-> IF currentVoiceMetrics = Null THEN 0
                     ELSE currentVoiceMetrics.pitchVariance,
   energyVariance |-> IF currentVoiceMetrics = Null THEN 0
                      ELSE currentVoiceMetrics.energyVariance,
   sentimentTag |-> result.tags[1]]

\* a firewall that would read the suggestions generated before
journalDecisionAfterSuggestions(text, currentVoiceMetrics) ==
  IF Len(insights.suggestions) > 0
  THEN createCrisisDecision("Detected extreme negative sentiment score.", NoSuggestions)
  ELSE evaluateSafetyOf[journalSafetyInput(text, currentVoiceMetrics)]

journalDecision(text, currentVoiceMetrics) ==
  evaluateSafetyOf[journalSafetyInput(text, currentVoiceMetrics)]

journalStatus(result, currentVoiceMetrics) ==
  evaluateStress(journalStressInput(result, currentVoiceMetrics))

\* a guard that looks at the decision alone
attemptsRemoteWhenSafe(shouldShowSuggestions, decision) ==
  decision.status = "SAFE"

\* "if (shouldShowSuggestions && decision.status === 'SAFE')" around the request
journalAttemptsRemote(shouldShowSuggestions, decision) ==
  shouldShowSuggestions /\ decision.status = "SAFE"

\* "if (decision.status === 'SAFE' && shouldShowSuggestions)" around the import
journalBuildsPrompt(shouldShowSuggestions, decision) ==
  decision.status = "SAFE" /\ shouldShowSuggestions

\* a body that also carries the words matched in the entry
journalRequestBodyWithTriggers(newStatus, result) ==
  [stressLevel |-> newStatus.stressLevel, themes |-> result.tags,
   triggers |-> result.triggers]

\* "body: JSON.stringify({stressLevel: newStatus.stressLevel, themes: result.tags})"
journalRequestBody(newStatus, result) ==
  [stressLevel |-> newStatus.stressLevel, themes |-> result.tags]

\* the handler is called and the request is sent: saving an entry or a
\* completed transcription, when the decision is SAFE
StartJournalRemote(text, shouldShowSuggestions) ==
  /\ Len(invocations) < MaxInvocations
  /\ LET result == analyzeTextOf[text]
         currentVoiceMetrics == insights.voiceMetrics
         decision == journalDecision(text, currentVoiceMetrics)
         newStatus == journalStatus(result, currentVoiceMetrics)
     IN  /\ journalAttemptsRemote(shouldShowSuggestions, decision)
         /\ isBlocked' = blockOnCrisis(decision, isBlocked)
         /\ invocations' = Append(invocations,
              [handler |-> "handleJournalEntry", pc |-> "fetch", text |-> text,
               shouldShowSuggestions |-> shouldShowSuggestions,
               result |-> result, currentVoiceMetrics |-> currentVoiceMetrics,
               safetyInput |-> journalSafetyInput(text, currentVoiceMetrics),
               stressInput |-> journalStressInput(result, currentVoiceMetrics),
               safetyDecision |-> decision, newStatus |-> newStatus,
               activeTags |-> result.tags,
               request |-> journalRequestBody(newStatus, result)])
  /\ UNCHANGED << isSuggestionModalOpen, aiDebugData, insights, call, settings >>

\* the tail of the handler: the modal, the import of the prompt builder and
\* the state update, for the suggestions the invocation ends with
journalTail(inv, generatedSuggestions) ==
  /\ isSuggestionModalOpen' =
       IF Len(generatedSuggestions) > 0 /\ inv.shouldShowSuggestions
       THEN TRUE ELSE isSuggestionModalOpen
  /\ insights' = [insights EXCEPT !.textResult = inv.result,
                                  !.safetyStatus = inv.newStatus,
                                  !.safetyDecision = inv.safetyDecision,
                                  !.suggestions = generatedSuggestions]

\* the handler is called and runs to its end without a request: a content
\* change, or a decision that is CRISIS
JournalLocal(text, shouldShowSuggestions, sortOrder) ==
  /\ Len(invocations) < MaxInvocations
  /\ LET result == analyzeTextOf[text]
         currentVoiceMetrics == insights.voiceMetrics
         decision == journalDecision(text, currentVoiceMetrics)
         newStatus == journalStatus(result, currentVoiceMetrics)
         generatedSuggestions ==
           generateSuggestions(result.tags, currentVoiceMetrics, sortOrder)
         inv == [handler |-> "handleJournalEntry", text |-> text,
                 shouldShowSuggestions |-> shouldShowSuggestions,
                 result |-> result, safetyDecision |-> decision,
                 newStatus |-> newStatus]
     IN  /\ ~journalAttemptsRemote(shouldShowSuggestions, decision)
         /\ isBlocked' = blockOnCrisis(decision, isBlocked)
         /\ journalTail(inv, generatedSuggestions)
         /\ invocations' = Append(invocations,
              [handler |-> "handleJournalEntry",
               pc |-> IF journalBuildsPrompt(shouldShowSuggestions, decision)
                      THEN "import" ELSE "done",
               text |-> text, shouldShowSuggestions |-> shouldShowSuggestions,
               safetyInput |-> journalSafetyInput(text, currentVoiceMetrics),
               stressInput |-> journalStressInput(result, currentVoiceMetrics),
               safetyDecision |-> decision, newStatus |-> newStatus,
               activeTags |-> result.tags, usedLocal |-> TRUE,
               generatedSuggestions |-> generatedSuggestions,
               stateUpdated |-> TRUE])
  /\ UNCHANGED << aiDebugData, call, settings >>

\* the request settles: the response is read, the fallback applied, the
\* prompt builder imported and the state updated
JournalRemoteSettled(i, outcome, sortOrder) ==
  /\ invocations[i].handler = "handleJournalEntry"
  /\ invocations[i].pc = "fetch"
  /\ LET inv == invocations[i]
         fromRemote == remoteSuggestions(outcome)
         generatedSuggestions ==
           IF Len(fromRemote) = 0
           THEN generateSuggestions(inv.result.tags, inv.currentVoiceMetrics, sortOrder)
           ELSE fromRemote
     IN  /\ aiDebugData' = debugAfterResponse(aiDebugData, outcome)
         /\ journalTail(inv, generatedSuggestions)
         /\ invocations' = [invocations EXCEPT ![i] =
              [handler |-> inv.handler,
               pc |-> IF journalBuildsPrompt(inv.shouldShowSuggestions, inv.safetyDecision)
                      THEN "import" ELSE "done",
               text |-> inv.text, shouldShowSuggestions |-> inv.shouldShowSuggestions,
               safetyInput |-> inv.safetyInput, stressInput |-> inv.stressInput,
               safetyDecision |-> inv.safetyDecision, newStatus |-> inv.newStatus,
               activeTags |-> inv.activeTags, request |-> inv.request,
               response |-> responseShape(outcome),
               usedLocal |-> (Len(fromRemote) = 0),
               generatedSuggestions |-> generatedSuggestions,
               stateUpdated |-> TRUE]]
  /\ UNCHANGED << isBlocked, call, settings >>

\* import('./lib/promptBuilder') resolves: the prompt is built and shown in
\* the debug viewer
JournalPromptBuilt(i) ==
  /\ invocations[i].handler = "handleJournalEntry"
  /\ invocations[i].pc = "import"
  /\ LET inv == invocations[i]
         generatedPrompt == buildGroundingPrompt([stressLevel |-> inv.newStatus.stressLevel,
                                                  themes |-> inv.activeTags])
     IN  /\ aiDebugData' = [aiDebugData EXCEPT !.prompt = generatedPrompt]
         /\ invocations' = [invocations EXCEPT ![i] =
              [handler |-> inv.handler, pc |-> "done",
               text |-> inv.text, shouldShowSuggestions |-> inv.shouldShowSuggestions,
               safetyInput |-> inv.safetyInput, stressInput |-> inv.stressInput,
               safetyDecision |-> inv.safetyDecision, newStatus |-> inv.newStatus,
               activeTags |-> inv.activeTags, request |-> inv.request,
               response |-> inv.response, usedLocal |-> inv.usedLocal,
               generatedSuggestions |-> inv.generatedSuggestions,
               stateUpdated |-> inv.stateUpdated,
               prompt |-> generatedPrompt]]
  /\ UNCHANGED << isBlocked, isSuggestionModalOpen, insights, call, settings >>

(***************************************************************************)
(* The user's action on the grounding screen.                              *)
(***************************************************************************)
\* GroundingScreen onDismiss
DismissGrounding ==
  /\ isBlocked
  /\ isBlocked' = FALSE
  /\ UNCHANGED << isSuggestionModalOpen, aiDebugData, insights, invocations, call, settings >>

(***************************************************************************)
(* Settings: handleModeChange, when saveSettings('app_mode', newMode)      *)
(* resolves.  When it rejects, the store is left as it was.                *)
(***************************************************************************)
handleModeChange(newMode) ==
  \* onChange of a radio button: the option chosen was not checked before
  /\ newMode # storedMode
  /\ settings' = [app_mode |-> newMode]
  /\ UNCHANGED << homeVars, call >>

Next ==
  \/ \E metrics \in PipelineMetrics : StartAudio(metrics)
  \/ \E i \in 1..Len(invocations) : AudioMetricsSaved(i)
  \/ \E i \in 1..Len(invocations) : AudioMetricsSaveFailed(i)
  \/ \E i \in 1..Len(invocations), outcome \in RemoteOutcomes, sortOrder \in SortOrders :
       AudioRemoteSettled(i, outcome, sortOrder)
  \/ \E i \in 1..Len(invocations) : AudioPromptBuilt(i)
  \/ \E text \in PipelineTexts, shouldShowSuggestions \in BOOLEAN :
       StartJournalRemote(text, shouldShowSuggestions)
  \/ \E text \in PipelineTexts, shouldShowSuggestions \in BOOLEAN,
        sortOrder \in SortOrders :
       JournalLocal(text, shouldShowSuggestions, sortOrder)
  \/ \E i \in 1..Len(invocations), outcome \in RemoteOutcomes, sortOrder \in SortOrders :
       JournalRemoteSettled(i, outcome, sortOrder)
  \/ \E i \in 1..Len(invocations) : JournalPromptBuilt(i)
  \/ DismissGrounding
  \/ \E newMode \in {"offline", "online"} : handleModeChange(newMode)

Spec == Init /\ [][Next]_vars

(***************************************************************************)
(* The library functions called on their own.                              *)
(***************************************************************************)
CallAnalyzeText(text) ==
  /\ call.op = "none"
  /\ call' = [op |-> "analyzeText", text |-> text, result |-> analyzeText(text)]
  /\ UNCHANGED << homeVars, settings >>

CallEvaluateStress(input) ==
  /\ call.op = "none"
  /\ call' = [op |-> "evaluateStress", input |-> input, result |-> evaluateStress(input)]
  /\ UNCHANGED << homeVars, settings >>

CallEvaluateStressFloor(input) ==
  /\ call.op = "none"
  /\ call' = [op |-> "evaluateStressFloor", input |-> input,
              result |-> evaluateStressFloor(input)]
  /\ UNCHANGED << homeVars, settings >>

CallEvaluateSafety(input) ==
  /\ call.op = "none"
  /\ call' = [op |-> "evaluateSafety", input |-> input, result |-> evaluateSafety(input)]
  /\ UNCHANGED << homeVars, settings >>

CallAnalyzeStress(buffer) ==
  /\ call.op = "none"
  /\ call' = [op |-> "analyzeStress", input |-> buffer, result |-> analyzeStress(buffer)]
  /\ UNCHANGED << homeVars, settings >>

CallPOST(apiKey, req, generates) ==
  /\ call.op = "none"
  /\ call' = [op |-> "POST", apiKey |-> apiKey, req |-> req, generates |-> generates,
              result |-> POST(apiKey, req, generates)]
  /\ UNCHANGED << homeVars, settings >>

CallProcessAudio(blob, backend, transcript) ==
  /\ call.op = "none"
  /\ call' = [op |-> "processAudio", blob |-> blob, backend |-> backend,
              transcript |-> transcript,
              result |-> processAudio(blob, backend, transcript)]
  /\ UNCHANGED << homeVars, settings >>

CallGenerateSuggestions(tags, voiceMetrics, sortOrder) ==
  /\ call.op = "none"
  /\ call' = [op |-> "generateSuggestions", tags |-> tags, voiceMetrics |-> voiceMetrics,
              result |-> generateSuggestions(tags, voiceMetrics, sortOrder)]
  /\ UNCHANGED << homeVars, settings >>

CallEstimateSpeakingRate(energyEnvelope, durationMs) ==
  /\ call.op = "none"
  /\ call' = [op |-> "estimateSpeakingRate", energyEnvelope |-> energyEnvelope,
              durationMs |-> durationMs,
              result |-> estimateSpeakingRate(energyEnvelope, durationMs)]
  /\ UNCHANGED << homeVars, settings >>

SafetyInputs ==
  {[text |-> text] : text \in Texts}
  \cup {[text |-> text, voiceMetrics |-> voiceMetrics] :
          text \in Texts, voiceMetrics \in VoiceSamples}

NextLib ==
  \/ \E text \in Texts : CallAnalyzeText(text)
  \/ \E input \in StressInputs : CallEvaluateStress(input)
  \/ \E input \in StressInputs : CallEvaluateStressFloor(input)
  \/ \E input \in SafetyInputs : CallEvaluateSafety(input)
  \/ \E buffer \in AudioBuffers : CallAnalyzeStress(buffer)
  \/ \E apiKey \in BOOLEAN, req \in RouteRequests, generates \in ModelOutcomes :
       CallPOST(apiKey, req, generates)
  \/ \E blob \in Blobs, backend \in Backends, transcript \in Transcripts :
       CallProcessAudio(blob, backend, transcript)
  \/ \E tags \in SuggestionTagLists, voiceMetrics \in SuggestionVoiceMetrics,
        sortOrder \in SortOrders :
       CallGenerateSuggestions(tags, voiceMetrics, sortOrder)
  \/ \E energyEnvelope \in Envelopes, durationMs \in EnvelopeDurations :
       CallEstimateSpeakingRate(energyEnvelope, durationMs)

SpecLib == Init /\ [][NextLib]_vars

(***************************************************************************)
(* Properties of the Safety Firewall.                                      *)
(***************************************************************************)
\* the lower-cased text contains a configured crisis keyword as a substring
containsCrisisKeyword(text) ==
  \E k \in 1..Len(CRISIS_KEYWORDS) : includes(toLowerCase(text), CRISIS_KEYWORDS[k])

\* the action types of a decision, in order
actionTypes(decision) ==
  [k \in 1..Len(decision.actions) |-> decision.actions[k].type]

\* C1: for every text whose lower-cased form contains a crisis keyword, and
\* for voice metrics absent or present with any values, evaluateSafety
\* returns status CRISIS.
C1_CrisisKeywordForcesCrisis ==
  (call.op = "evaluateSafety" /\ containsCrisisKeyword(call.input.text))
    => call.result.status = "CRISIS"

\* C1 happens: a keyword in mixed case inside a longer text, with the voice
\* metrics of a silent recording, is decided CRISIS by the keyword rule
C1_Witness ==
  /\ call.op = "evaluateSafety"
  /\ call.input.text = "Kill Myself I feel fine"
  /\ "voiceMetrics" \in DOMAIN call.input
  /\ call.input.voiceMetrics.pitchVariance = 0
  /\ call.input.voiceMetrics.energyVariance = 0
  /\ call.result.status = "CRISIS"
  /\ call.result.reason = "Detected high-risk keyword: \"kill myself\""

\* C2: every decision of evaluateSafety is CRISIS or SAFE; it is CRISIS if and
\* only if its actions are exactly BLOCK_GENERATION, SHOW_GROUNDING,
\* SHOW_HELPLINE in that order, and SAFE if and only if it has no actions.
C2_StatusFixesActions ==
  call.op = "evaluateSafety" =>
    /\ call.result.status \in {"CRISIS", "SAFE"}
    /\ call.result.status = "CRISIS" <=>
         actionTypes(call.result) = <<"BLOCK_GENERATION", "SHOW_GROUNDING", "SHOW_HELPLINE">>
    /\ call.result.status = "SAFE" <=> call.result.actions = <<>>

\* C2 happens: a CRISIS decision of the voice rule, whose grounding action
\* carries the scorer's suggestions, has the three actions in order
C2_Witness ==
  /\ call.op = "evaluateSafety"
  /\ call.result.status = "CRISIS"
  /\ call.result.reason = "Detected HIGH physiological stress markers."
  /\ Len(call.result.actions) = 3
  /\ "suggestions" \in DOMAIN call.result.actions[2]
  /\ call.result.actions[3].type = "SHOW_HELPLINE"

\* C3: for every text that contains no crisis keyword and whose analyzeText
\* score is at most -0.6, evaluateSafety returns CRISIS, also when no voice
\* metrics are given.
C3_NegativeScoreForcesCrisis ==
  (/\ call.op = "evaluateSafety"
   /\ ~containsCrisisKeyword(call.input.text)
   /\ analyzeText(call.input.text).score <= -60)
    => call.result.status = "CRISIS"

\* C3 happens: a text without crisis keyword that scores exactly -0.6 is
\* decided CRISIS without voice metrics
C3_Witness ==
  /\ call.op = "evaluateSafety"
  /\ "voiceMetrics" \notin DOMAIN call.input
  /\ ~containsCrisisKeyword(call.input.text)
  /\ analyzeText(call.input.text).score = -60
  /\ call.result.status = "CRISIS"
  /\ call.result.reason = "Detected extreme negative sentiment score."

(***************************************************************************)
(* Properties of the Stress Scorer.                                        *)
(***************************************************************************)
\* the tag of a scorer input in lower case, "" when there is none
tagOf(input) ==
  IF "sentimentTag" \in DOMAIN input THEN toLowerCase(input.sentimentTag) ELSE ""

\* the reference score in ten-thousandths: 0.6*p + 0.4*e + delta(tag)
referenceScore(input) ==
  6 * input.pitchVariance + 4 * input.energyVariance
  + (IF tagOf(input) \in {"stress", "anxiety", "insomnia", "concern"} THEN 3000
     ELSE IF tagOf(input) \in {"depression", "hopeless"} THEN 4000
     ELSE IF tagOf(input) \in {"positivity", "happy"} THEN -2000
     ELSE 0)

\* the tags the reference gives a floor
flooredTags == {"stress", "anxiety", "insomnia", "concern", "depression", "hopeless"}

\* C8: for pitchVariance and energyVariance in [0,1], evaluateStress never
\* returns LOW when the tag is, in any case, stress, anxiety, insomnia,
\* concern, depression or hopeless.
C8_NegativeTagNeverLow ==
  (call.op = "evaluateStress" /\ tagOf(call.input) \in flooredTags)
    => call.result.stressLevel # "LOW"

\* C9: evaluateStress returns exactly one level for every input, HIGH if and
\* only if the reference score s = 0.6*p + 0.4*e + delta(tag) is at least
\* 0.7, and for tags without a floor MODERATE if and only if 0.4 <= s < 0.7
\* and LOW if and only if s < 0.4; (0.2, 0.1, neutral) is LOW and
\* (0.6, 0.5, stress) is HIGH.
C9_MatchesReferenceScoring ==
  call.op = "evaluateStress" =>
    LET s == referenceScore(call.input)
        level == call.result.stressLevel
    IN  /\ level \in {"LOW", "MODERATE", "HIGH"}
        /\ level = "HIGH" <=> s >= 7000
        /\ tagOf(call.input) \notin flooredTags =>
             /\ level = "MODERATE" <=> (4000 <= s /\ s < 7000)
             /\ level = "LOW" <=> s < 4000
        /\ call.input = [pitchVariance |-> 200, energyVariance |-> 100,
                         sentimentTag |-> "neutral"] => level = "LOW"
        /\ call.input = [pitchVariance |-> 600, energyVariance |-> 500,
                         sentimentTag |-> "stress"] => level = "HIGH"

(***************************************************************************)
(* Properties of the Text Tagger.                                          *)
(***************************************************************************)
\* a keyword of some dictionary is a substring of the lower-cased text
containsDictionaryKeyword(text) ==
  \E d \in 1..Len(DICTIONARIES) :
    \E k \in 1..Len(DICTIONARIES[d].keywords) :
      includes(toLowerCase(text), DICTIONARIES[d].keywords[k])

requested(inv) == "request" \in DOMAIN inv

\* the invocation has come to the end of its suggestion step
composed(inv) == "generatedSuggestions" \in DOMAIN inv

\* the invocation has started or finished building the AI prompt
promptStarted(inv) == inv.pc = "import" \/ "prompt" \in DOMAIN inv

\* C4: an invocation of either handler sends the request to /api/ask-gemini
\* only after evaluateSafety has returned for its input and only if the
\* decision is SAFE: an invocation decided CRISIS never sends it.
C4_RemoteOnlyWhenSafe ==
  \A i \in 1..Len(invocations) :
    requested(invocations[i]) =>
      /\ "safetyDecision" \in DOMAIN invocations[i]
      /\ invocations[i].safetyDecision.status = "SAFE"

\* C5: an invocation builds the AI prompt only if and only after
\* evaluateSafety returned SAFE for its input: no prompt is built for a
\* CRISIS decision and none is started before the firewall has returned.
C5_PromptOnlyAfterSafe ==
  \A i \in 1..Len(invocations) :
    promptStarted(invocations[i]) =>
      /\ "safetyDecision" \in DOMAIN invocations[i]
      /\ invocations[i].safetyDecision.status = "SAFE"

\* C5 happens: a recording decided SAFE has its prompt built, and an
\* invocation decided CRISIS has run to its end without one
C5_Witness ==
  /\ \E i \in 1..Len(invocations) :
       /\ invocations[i].handler = "handleAudioProcessing"
       /\ "prompt" \in DOMAIN invocations[i]
       /\ invocations[i].safetyDecision.status = "SAFE"
  /\ \E j \in 1..Len(invocations) :
       /\ invocations[j].pc = "done"
       /\ invocations[j].safetyDecision.status = "CRISIS"
       /\ "prompt" \notin DOMAIN invocations[j]

\* C6: the suggestion list an invocation ends with is never empty and holds
\* at most 3 items, whatever the tags, the voice metrics and the outcome of
\* the remote request.
C6_OneToThreeSuggestions ==
  \A i \in 1..Len(invocations) :
    composed(invocations[i]) =>
      /\ Len(invocations[i].generatedSuggestions) >= 1
      /\ Len(invocations[i].generatedSuggestions) <= 3

\* C7: when the request an invocation sent throws, comes back with a status
\* that is no success, or with a payload that is not {suggestions: list of
\* Suggestion}, the invocation uses the result of generateSuggestions, the
\* handler does not throw and it performs its final state update.
C7_FailedRemoteFallsBackToLocal ==
  \A i \in 1..Len(invocations) :
    ("response" \in DOMAIN invocations[i]
       /\ invocations[i].response \in {"failed", "malformed"}) =>
      /\ invocations[i].usedLocal
      /\ invocations[i].pc # "threw"
      /\ invocations[i].stateUpdated

(***************************************************************************)
(* Further properties of the Text Tagger.                                  *)
(***************************************************************************)
\* the (dictionary, keyword) pairs whose keyword the lower-cased text holds,
\* among the positivity dictionary or among the other five
containedPairs(text, positive) ==
  {pair \in UNION {{<<d, k>> : k \in 1..Len(DICTIONARIES[d].keywords)} :
                    d \in 1..Len(DICTIONARIES)} :
     /\ (DICTIONARIES[pair[1]].tag = "positivity") = positive
     /\ includes(toLowerCase(text), DICTIONARIES[pair[1]].keywords[pair[2]])}

containedKeywords(text, d) ==
  SelectSeq(DICTIONARIES[d].keywords,
            LAMBDA keyword : includes(toLowerCase(text), keyword))

decided(inv) == "safetyDecision" \in DOMAIN inv

C14_DegenerateAudioYieldsZeros ==
  call.op = "analyzeStress" =>
    /\ (call.input.length <= WINDOW_SIZE \/ silent(call.input)) =>
         /\ call.result.pitchVariance = 0
         /\ call.result.energyVariance = 0
         /\ call.result.speakingRate = 0
    /\ NaN \notin {call.result.pitchVariance, call.result.energyVariance,
                   call.result.speakingRate}

\* a silent recording of several windows has been analysed, to all zeros
C14_Witness ==
  /\ call.op = "analyzeStress"
  /\ Len(call.input.windows) >= 2
  /\ silent(call.input)
  /\ call.result.pitchVariance = 0
  /\ call.result.energyVariance = 0
  /\ call.result.speakingRate = 0

(***************************************************************************)
(* Properties of the remote suggestion request.                            *)
(***************************************************************************)
\* the names of the sentiment tags
sentimentTagNames ==
  {DICTIONARIES[d].tag : d \in 1..Len(DICTIONARIES)} \cup {"neutral"}

\* C15: the body of every request to /api/ask-gemini has exactly the fields
\* stressLevel, one of LOW, MODERATE and HIGH, and themes, a list of
\* sentiment tag names; the text of the entry is no part of it; and two
\* invocations with the same tags and the same stress level send the same
\* body, from which the route builds the same prompt, and build the same
\* prompt themselves
C15_RequestIsLevelAndThemesOnly ==
  /\ \A i \in 1..Len(invocations) :
       requested(invocations[i]) =>
         LET body == invocations[i].request
         IN  /\ DOMAIN body = {"stressLevel", "themes"}
             /\ body.stressLevel \in {"LOW", "MODERATE", "HIGH"}
             /\ \A k \in 1..Len(body.themes) : body.themes[k] \in sentimentTagNames
             /\ "text" \in DOMAIN invocations[i] =>
                  /\ body.stressLevel # invocations[i].text
                  /\ \A k \in 1..Len(body.themes) : body.themes[k] # invocations[i].text
  /\ \A i, j \in 1..Len(invocations) :
       (/\ requested(invocations[i]) /\ requested(invocations[j])
        /\ invocations[i].activeTags = invocations[j].activeTags
        /\ invocations[i].newStatus.stressLevel = invocations[j].newStatus.stressLevel) =>
         /\ invocations[i].request = invocations[j].request
         /\ routePrompt(invocations[i].request) = routePrompt(invocations[j].request)
         /\ ("prompt" \in DOMAIN invocations[i] /\ "prompt" \in DOMAIN invocations[j])
              => invocations[i].prompt = invocations[j].prompt

\* two saved entries of different text, with the same tags and the same
\* stress level, have sent the same body and built the same prompt
C15_Witness ==
  \E i, j \in 1..Len(invocations) :
    /\ "text" \in DOMAIN invocations[i] /\ "text" \in DOMAIN invocations[j]
    /\ invocations[i].text # invocations[j].text
    /\ "prompt" \in DOMAIN invocations[i] /\ "prompt" \in DOMAIN invocations[j]
    /\ requested(invocations[i]) /\ requested(invocations[j])
    /\ invocations[i].activeTags = invocations[j].activeTags
    /\ invocations[i].newStatus.stressLevel = invocations[j].newStatus.stressLevel
    /\ invocations[i].request = invocations[j].request
    /\ invocations[i].prompt = invocations[j].prompt

\* C16: a request to /api/ask-gemini is sent only by an invocation made for
\* a completed recording or for a saved entry or transcription
\* (shouldShowSuggestions = true); an invocation made for a change of the
\* journal's content (shouldShowSuggestions = false) sends none and reads no
\* response, whatever the invocations before it
C16_RemoteOnlyOnExplicitRequest ==
  \A i \in 1..Len(invocations) :
    LET inv == invocations[i]
    IN  /\ requested(inv) =>
             \/ inv.handler = "handleAudioProcessing"
             \/ inv.handler = "handleJournalEntry" /\ inv.shouldShowSuggestions
        /\ (inv.handler = "handleJournalEntry" /\ ~inv.shouldShowSuggestions) =>
             /\ ~requested(inv)
             /\ "response" \notin DOMAIN inv
             /\ inv.usedLocal

\* two changes of content in a row, both decided SAFE, have run to their end
\* on the local suggestions, with no request
C16_Witness ==
  /\ Len(invocations) = 2
  /\ \A i \in 1..2 :
       /\ invocations[i].handler = "handleJournalEntry"
       /\ ~invocations[i].shouldShowSuggestions
       /\ invocations[i].safetyDecision.status = "SAFE"
       /\ invocations[i].pc = "done"
       /\ ~requested(invocations[i])
       /\ Len(invocations[i].generatedSuggestions) > 0

(***************************************************************************)
(* Properties of the suggestion API route.                                 *)
(***************************************************************************)
\* the "Model Priority" of the README
documentedPriority == << "gemma-3-12b-it", "gemma-3-27b-it", "gemma-3-4b-it" >>

\* C17: the route tries the models in the documented priority,
\* gemma-3-12b-it, then gemma-3-27b-it, then gemma-3-4b-it, each only after
\* the ones before it failed, and answers with the first that succeeds
C17_DocumentedModelOrder ==
  (call.op = "POST" /\ call.result.status \in {200, 500}
     /\ Len(call.result.attempts) > 0) =>
    LET attempts == call.result.attempts
    IN  /\ Len(attempts) <= Len(documentedPriority)
        /\ attempts = SubSeq(documentedPriority, 1, Len(attempts))
        /\ \A k \in 1..(Len(attempts) - 1) : ~call.generates[attempts[k]]
        /\ call.result.status = 200 =>
             /\ call.result.modelUsed = attempts[Len(attempts)]
             /\ call.generates[call.result.modelUsed]

(***************************************************************************)
(* Properties of the Voice Recorder.                                       *)
(***************************************************************************)
\* C18: a recording is only decoded and analysed on the device: processAudio
\* sends no HTTP request that carries the audio blob
C18_AudioNeverLeavesTheDevice ==
  call.op = "processAudio" =>
    \A k \in 1..Len(call.result.requests) :
      call.result.requests[k].body.file # call.blob

(***************************************************************************)
(* Properties of the app mode.                                             *)
(***************************************************************************)
\* C19: while the stored app mode is 'offline', which it is until it is set
\* to 'online', no invocation sends a request to /api/ask-gemini: a step in
\* which an invocation comes to hold a request is taken in mode 'online'
C19_OfflineModeSendsNoRequest ==
  [][\A i \in 1..Len(invocations') :
       (requested(invocations'[i])
          /\ ~(i <= Len(invocations) /\ requested(invocations[i])))
         => storedMode = "online"]_vars

(***************************************************************************)
(* Properties of the order of the firewall's rules.                        *)
(***************************************************************************)
\* the score of the text is at or below the threshold
scoreAtOrBelowThreshold(text) == analyzeText(text).score <= NEGATIVE_SENTIMENT_THRESHOLD

\* the input has voice metrics and the scorer, given them normalized and the
\* representative tag of the text, answers HIGH
voiceStressHigh(input) ==
  /\ "voiceMetrics" \in DOMAIN input
  /\ evaluateStress(
       [pitchVariance |->
          normalizeMetric(input.voiceMetrics.pitchVariance, PITCH_NORMALIZATION_MAX),
        energyVariance |->
          normalizeMetric(input.voiceMetrics.energyVariance, ENERGY_NORMALIZATION_MAX),
        sentimentTag |-> sentimentTagForStress(analyzeText(input.text).tags)]).stressLevel
       = "HIGH"

\* the first keyword, in configuration order, that the lower-cased text contains
firstContainedKeyword(text) ==
  CRISIS_KEYWORDS[CHOOSE k \in 1..Len(CRISIS_KEYWORDS) :
                    /\ includes(toLowerCase(text), CRISIS_KEYWORDS[k])
                    /\ \A j \in 1..(k - 1) :
                         ~includes(toLowerCase(text), CRISIS_KEYWORDS[j])]

\* C20: evaluateSafety applies its rules in a fixed order and the first that
\* matches decides: when the text contains a crisis keyword the reason cites
\* the first contained keyword in configuration order, whatever the score
\* and the voice stress; when it contains none and the score is at or below
\* -0.6 the reason is the sentiment reason, whatever the voice stress; and
\* the voice reason is given only when neither of these rules matches
C20_FirstMatchingRuleDecides ==
  call.op = "evaluateSafety" =>
    LET text == call.input.text
        reason == call.result.reason
    IN  /\ containsCrisisKeyword(text) =>
             reason = "Detected high-risk keyword: \"" \o firstContainedKeyword(text) \o "\""
        /\ (~containsCrisisKeyword(text) /\ scoreAtOrBelowThreshold(text)) =>
             reason = "Detected extreme negative sentiment score."
        /\ reason = "Detected HIGH physiological stress markers." <=>
             /\ ~containsCrisisKeyword(text)
             /\ ~scoreAtOrBelowThreshold(text)
             /\ voiceStressHigh(call.input)

\* all three rules match at once, and the keyword rule has decided
C20_Witness ==
  /\ call.op = "evaluateSafety"
  /\ containsCrisisKeyword(call.input.text)
  /\ scoreAtOrBelowThreshold(call.input.text)
  /\ voiceStressHigh(call.input)
  /\ call.result.reason = "Detected high-risk keyword: \"kill myself\""

(***************************************************************************)
(* Properties of the firewall's voice rule.                                *)
(***************************************************************************)
\* clamp(val / max, 0, 1), in thousandths
clampedRatio(val, max) ==
  IF val <= 0 THEN 0 ELSE IF val >= max THEN 1000 ELSE (val * 1000) \div max

\* the first of stress, anxiety, depression and positivity among the tags,
\* else neutral
representativeTag(tags) ==
  LET priority == << "stress", "anxiety", "depression", "positivity" >>
      present == {k \in 1..Len(priority) : \E i \in 1..Len(tags) : tags[i] = priority[k]}
  IN  IF present = {} THEN "neutral"
      ELSE priority[CHOOSE k \in present : \A j \in present : k <= j]

\* what the scorer answers for the voice metrics of a firewall input,
\* normalized against 100 Hz and 0.5, and the representative tag of its text
scorerAnswer(input) ==
  evaluateStress(
    [pitchVariance |-> clampedRatio(input.voiceMetrics.pitchVariance, 100000),
     energyVariance |-> clampedRatio(input.voiceMetrics.energyVariance, 500),
     sentimentTag |-> representativeTag(analyzeText(input.text).tags)])

\* the SHOW_GROUNDING action of a crisis decision
groundingAction(decision) ==
  decision.actions[CHOOSE k \in 1..Len(decision.actions) :
                     decision.actions[k].type = "SHOW_GROUNDING"]

\* C21: for an input with no crisis keyword and a score above -0.6,
\* evaluateSafety with voice metrics returns CRISIS exactly when the scorer,
\* given the normalized metrics and the representative tag, answers HIGH,
\* and then the SHOW_GROUNDING action carries the scorer's suggestions;
\* without voice metrics it returns SAFE; and a CRISIS of the keyword or
\* the sentiment rule carries no suggestions
C21_VoiceRuleFollowsScorer ==
  call.op = "evaluateSafety" =>
    LET input == call.input
        decision == call.result
        earlierRule == containsCrisisKeyword(input.text)
                         \/ scoreAtOrBelowThreshold(input.text)
    IN  /\ (~earlierRule /\ "voiceMetrics" \in DOMAIN input) =>
             /\ decision.status = "CRISIS" <=> scorerAnswer(input).stressLevel = "HIGH"
             /\ decision.status = "CRISIS" =>
                  /\ "suggestions" \in DOMAIN groundingAction(decision)
                  /\ groundingAction(decision).suggestions = scorerAnswer(input).suggestions
        /\ (~earlierRule /\ "voiceMetrics" \notin DOMAIN input) =>
             decision.status = "SAFE"
        /\ earlierRule =>
             /\ decision.status = "CRISIS"
             /\ "suggestions" \notin DOMAIN groundingAction(decision)

\* the voice rule has fired for a text that matches neither earlier rule,
\* and the grounding action carries the scorer's two HIGH suggestions
C21_Witness ==
  /\ call.op = "evaluateSafety"
  /\ ~containsCrisisKeyword(call.input.text)
  /\ ~scoreAtOrBelowThreshold(call.input.text)
  /\ "voiceMetrics" \in DOMAIN call.input
  /\ call.result.status = "CRISIS"
  /\ groundingAction(call.result).suggestions = HIGH_SUGGESTIONS

(***************************************************************************)
(* Properties of the scorer's inputs in the pipeline.                      *)
(***************************************************************************)
\* C22: every call of evaluateStress by handleAudioProcessing and
\* handleJournalEntry is given a pitchVariance and an energyVariance that
\* lie in [0,1]
C22_ScorerInputsNormalized ==
  \A i \in 1..Len(invocations) :
    decided(invocations[i]) =>
      /\ invocations[i].stressInput.pitchVariance \in 0..1000
      /\ invocations[i].stressInput.energyVariance \in 0..1000

(***************************************************************************)
(* Properties of the Suggestion Composer.                                  *)
(***************************************************************************)
\* the conditions in their fixed order, each with its pool and its cap
composerConditions ==
  << [pool |-> "CALM_VOICE", cap |-> 1, tag |-> ""],
     [pool |-> "ANXIETY", cap |-> 2, tag |-> "anxiety"],
     [pool |-> "STRESS", cap |-> 2, tag |-> "stress"],
     [pool |-> "DEPRESSION", cap |-> 2, tag |-> "depression"],
     [pool |-> "INSOMNIA", cap |-> 2, tag |-> "insomnia"],
     [pool |-> "POSITIVITY", cap |-> 1, tag |-> "positivity"] >>

\* the condition matches: an elevated voice pitch, or its tag in the list
conditionMatched(c, tags, voiceMetrics) ==
  IF c.pool = "CALM_VOICE"
  THEN voiceMetrics # Null /\ voiceMetrics.pitchVariance > 400
  ELSE \E i \in 1..Len(tags) : tags[i] = c.tag

\* the pool each position of the untruncated list is drawn from: for every
\* matched condition from the k-th on, its pool as many times as its cap
RECURSIVE poolsFrom(_, _, _)
poolsFrom(k, tags, voiceMetrics) ==
  IF k > Len(composerConditions) THEN << >>
  ELSE LET c == composerConditions[k]
       IN  (IF conditionMatched(c, tags, voiceMetrics)
            THEN [i \in 1..c.cap |-> c.pool] ELSE << >>)
             \o poolsFrom(k + 1, tags, voiceMetrics)

poolItems(key) == {SUGGESTION_POOL[key][i] : i \in 1..Len(SUGGESTION_POOL[key])}

\* C23: generateSuggestions returns pairwise distinct items; the items are
\* drawn, in the fixed order of the conditions, from the pool of each
\* matched condition up to its cap, and the list is cut to 3; items of the
\* neutral pool appear exactly when no condition matched, and then there
\* are exactly 2 of them
C23_SuggestionsFollowConditions ==
  call.op = "generateSuggestions" =>
    LET result == call.result
        matchedPools == poolsFrom(1, call.tags, call.voiceMetrics)
        pools == IF matchedPools = << >> THEN << "NEUTRAL", "NEUTRAL" >>
                 ELSE matchedPools
    IN  /\ Len(result) = Min(3, Len(pools))
        /\ \A k \in 1..Len(result) : result[k] \in poolItems(pools[k])
        /\ \A j, k \in 1..Len(result) : j # k => result[j] # result[k]
        /\ (\E k \in 1..Len(result) : result[k] \in poolItems("NEUTRAL"))
             <=> matchedPools = << >>

\* an elevated pitch with anxiety and stress: one voice item, two anxiety
\* items, and the stress items cut off by the limit of 3
C23_Witness ==
  /\ call.op = "generateSuggestions"
  /\ call.voiceMetrics # Null
  /\ call.voiceMetrics.pitchVariance > 400
  /\ call.tags = << "anxiety", "stress" >>
  /\ Len(call.result) = 3
  /\ call.result[1] \in poolItems("CALM_VOICE")
  /\ call.result[3] \in poolItems("ANXIETY")

(***************************************************************************)
(* Properties of the speaking rate.                                        *)
(***************************************************************************)
\* window i of the smoothed envelope is above the threshold, 80% of the
\* mean, and window j is below 50% of the threshold, 40% of the mean
aboveThreshold(smoothed, i) ==
  smoothed[i] * Len(smoothed) * 10 > 8 * sumSeq(smoothed)
belowHalfThreshold(smoothed, j) ==
  smoothed[j] * Len(smoothed) * 10 < 4 * sumSeq(smoothed)

\* the windows counted as peaks: those above the threshold before which no
\* peak was counted, or since whose last counted peak a window was below
\* half the threshold
countedPeaks(smoothed) ==
  CHOOSE P \in SUBSET (1..Len(smoothed)) :
    \A i \in 1..Len(smoothed) :
      i \in P <=>
        /\ aboveThreshold(smoothed, i)
        /\ LET earlier == {p \in P : p < i}
           IN  \/ earlier = {}
               \/ \E j \in 1..(i - 1) :
                    /\ \A p \in earlier : p < j
                    /\ belowHalfThreshold(smoothed, j)

\* C24: estimateSpeakingRate counts a window of the smoothed envelope as a
\* peak exactly when it is above the threshold and no peak was counted
\* before it or a window since the last counted peak was below half the
\* threshold, and returns the count divided by the duration; an envelope
\* with no window below half the threshold has at most one peak
C24_PeaksCountedWithHysteresis ==
  (call.op = "estimateSpeakingRate" /\ call.durationMs > 0
     /\ Len(call.energyEnvelope) > 0) =>
    LET smoothed == smoothArray(call.energyEnvelope, 3)
        peaks == Cardinality(countedPeaks(smoothed))
    IN  /\ call.result = (peaks * 1000000) \div call.durationMs
        /\ (\A j \in 1..Len(smoothed) : ~belowHalfThreshold(smoothed, j))
             => call.result <= 1000000 \div call.durationMs

\* an envelope with a pause long enough to fall below half the threshold
\* has been counted as two peaks
C24_Witness ==
  /\ call.op = "estimateSpeakingRate"
  /\ call.durationMs = 500
  /\ call.result = 4000
  /\ Cardinality(countedPeaks(smoothArray(call.energyEnvelope, 3))) = 2

(***************************************************************************)
(* Properties of the route's fallback chain.                               *)
(***************************************************************************)
\* every model of the list was attempted, in list order, and failed
allModelsFailed ==
  /\ call.result.attempts = modelsToTry
  /\ \A k \in 1..Len(modelsToTry) : ~call.generates[modelsToTry[k]]

\* the request has a body that parses and names a stress level
namesStressLevel(req) ==
  req # Unparsable /\ "stressLevel" \in DOMAIN req /\ req.stressLevel # ""

\* what the chain does with a request it accepts: the attempts are the
\* models of the list in order up to the first that succeeds, each made
\* after the earlier ones failed, and the answer is that model's
chainAttemptsInOrder ==
  LET attempts == call.result.attempts
  IN  /\ Len(attempts) <= Len(modelsToTry)
      /\ attempts = SubSeq(modelsToTry, 1, Len(attempts))
      /\ \A k \in 1..(Len(attempts) - 1) : ~call.generates[attempts[k]]
      /\ call.result.status = 200 =>
           /\ Len(attempts) > 0
           /\ call.generates[attempts[Len(attempts)]]
           /\ call.result.modelUsed = attempts[Len(attempts)]
           /\ call.result.suggestions = parsedReply(attempts[Len(attempts)])
      /\ call.result.status # 200 =>
           \A k \in 1..Len(attempts) : ~call.generates[attempts[k]]

C26_FirewallRunsDespiteSaveFailure ==
  \A i \in 1..Len(invocations) :
    (invocations[i].handler = "handleAudioProcessing"
       /\ invocations[i].pc # "saveMetrics") =>
      /\ "safetyDecision" \in DOMAIN invocations[i]
      /\ "newStatus" \in DOMAIN invocations[i]

\* the invocation has stored its results with setInsights, or has thrown
completed(inv) == "stateUpdated" \in DOMAIN inv \/ inv.pc = "threw"

\* C27: once every invocation in flight has completed, the stored safety
\* decision and suggestions are those of the invocation submitted last: the
\* late completion of an older invocation never replaces them
C27_LatestInputWins ==
  (/\ Len(invocations) > 0
   /\ \A i \in 1..Len(invocations) : completed(invocations[i])
   /\ invocations[Len(invocations)].pc # "threw") =>
    LET latest == invocations[Len(invocations)]
    IN  /\ insights.safetyDecision = latest.safetyDecision
        /\ insights.suggestions = latest.generatedSuggestions

(***************************************************************************)
(* Properties of the block flag.                                           *)
(***************************************************************************)
\* C28: the block flag is sticky: a step that takes isBlocked from true to
\* false is never a step of a pipeline invocation (no invocation starts,
\* advances or stores results in it, whatever its decision); it is the
\* dismiss action of the grounding screen
C28_BlockFlagIsSticky ==
  [][(isBlocked /\ ~isBlocked') =>
       /\ invocations' = invocations
       /\ insights' = insights
       /\ DismissGrounding]_vars

\* the first entry was decided CRISIS and set the flag, a later entry was
\* decided SAFE and has run to its end, and the flag is still set
C28_Witness ==
  /\ isBlocked
  /\ Len(invocations) = 2
  /\ invocations[1].handler = "handleJournalEntry"
  /\ invocations[1].safetyDecision.status = "CRISIS"
  /\ decided(invocations[2])
  /\ invocations[2].safetyDecision.status = "SAFE"
  /\ invocations[2].pc = "done"

(***************************************************************************)
(* Properties of the firewall as a function of the voice input.            *)
(***************************************************************************)
\* the inputs with the same text whose voice input is at least that of the
\* given input: any recording when the input has none, and otherwise every
\* recording whose pitch and energy variance are both at least as large
voiceAtLeast(input) ==
  {other \in SafetyInputs :
     /\ other.text = input.text
     /\ "voiceMetrics" \in DOMAIN other
     /\ "voiceMetrics" \in DOMAIN input =>
          /\ other.voiceMetrics.pitchVariance >= input.voiceMetrics.pitchVariance
          /\ other.voiceMetrics.energyVariance >= input.voiceMetrics.energyVariance}

\* C29: evaluateSafety is monotone in the voice input: when the decision for
\* an input is CRISIS, the decision for the same text is CRISIS with any
\* recording added where there was none, and with every recording whose
\* pitch variance and energy variance are at least as large
C29_MonotoneInVoice ==
  (call.op = "evaluateSafety" /\ call.result.status = "CRISIS") =>
    \A other \in voiceAtLeast(call.input) :
      evaluateSafety(other).status = "CRISIS"

\* a decision that is CRISIS by the voice rule, for a recording below the
\* largest pitch variance, so that larger recordings exist for the same text
C29_Witness ==
  /\ call.op = "evaluateSafety"
  /\ call.result.reason = "Detected HIGH physiological stress markers."
  /\ call.input.voiceMetrics.pitchVariance = 50000
  /\ \E other \in voiceAtLeast(call.input) :
       other.voiceMetrics.pitchVariance > call.input.voiceMetrics.pitchVariance

\* the recording is absent, or its pitch variance and energy variance are 0
voiceAbsentOrFlat(input) ==
  "voiceMetrics" \in DOMAIN input =>
    /\ input.voiceMetrics.pitchVariance = 0
    /\ input.voiceMetrics.energyVariance = 0

\* C30: text tags and floors alone never make the voice rule fire: for a
\* text with no crisis keyword and a score above -0.6, evaluateSafety returns
\* SAFE when the recording is absent or has pitch and energy variance 0; and
\* neither copy of the scorer answers HIGH for pitch 0 and energy 0, whatever
\* the tag, since no adjustment and no floor reaches 0.7
C30_TagsAloneNeverFireVoiceRule ==
  /\ (/\ call.op = "evaluateSafety"
      /\ ~containsCrisisKeyword(call.input.text)
      /\ analyzeText(call.input.text).score > -60
      /\ voiceAbsentOrFlat(call.input)) =>
        call.result.status = "SAFE"
  /\ (/\ call.op \in {"evaluateStress", "evaluateStressFloor"}
      /\ call.input.pitchVariance = 0
      /\ call.input.energyVariance = 0) =>
        call.result.stressLevel # "HIGH"

\* the firewall was called with a flat recording and a text that carries the
\* depression tag, the largest adjustment, below both text rules
C30_Witness ==
  /\ call.op = "evaluateSafety"
  /\ "voiceMetrics" \in DOMAIN call.input
  /\ voiceAbsentOrFlat(call.input)
  /\ ~containsCrisisKeyword(call.input.text)
  /\ analyzeText(call.input.text).score > -60
  /\ \E i \in 1..Len(analyzeText(call.input.text).tags) :
       analyzeText(call.input.text).tags[i] = "depression"
  /\ \A i \in 1..Len(analyzeText(call.input.text).tags) :
       analyzeText(call.input.text).tags[i] # "stress"
  /\ call.result.status = "SAFE"
====
